---- MODULE Spec2Model ----
(***************************************************************************)
(* Collaborative PDF annotation editor.                                    *)
(*                                                                         *)
(*   - the Socket.IO relay server with its in-memory `docs` map            *)
(*     (src/unnamed/part_001, second file of the part: lines 32-170);      *)
(*   - the PdfEditor React component (src/frontend/src/components/         *)
(*     PdfEditor.jsx): its socket handlers, its annotation store           *)
(*     (boxes / images), and its undo/redo history.                        *)
(*                                                                         *)
(* Two specifications share the variables:                                 *)
(*   SpecSync  participants, the relay server and the sockets between them *)
(*   SpecHist  one editing session's history stack and the asynchronous    *)
(*             operations that push onto it                                *)
(***************************************************************************)
EXTENDS Integers, Sequences, FiniteSets, Bags, TLC

(***************************************************************************)
(* Bounds of the model.                                                    *)
(***************************************************************************)
\* events emitted by all participants over a whole run (join and disconnect
\* included)
MaxEmits == 4
\* recompositions a session starts over a whole run
MaxRecompose == 2
\* times the fileUrl prop of a session changes over a whole run
MaxOpens == 2
\* recompositions and zoom clicks of one computation run
MaxDrawSteps == 3
\* upload requests over a whole run
MaxUploads == 3
\* loadDoc and saveDoc calls of the participants over a whole run
MaxHttp == 1
\* requests a bare HTTP client sends over a whole run
MaxRawHttp == 3
\* operators in the content stream of a page
MaxOps == 4
\* inline replacements in one session
MaxInline == 2
\* drags, resizes and blurs of text boxes in one session
MaxGestures == 2

Clients == {"A", "B", "C"}
DocIds == {"d1", "d2"}
Pages == {1, 2}

\* the docId prop each participant's editor is mounted with
docIdOf(c) == IF c = "C" THEN "d2" ELSE "d1"
\* the participants whose gestures are explored; C, alone in its room, is the
\* connection that emits the raw payloads
Editors == {"A", "B"}
RawSenders == {"C"}

\* JavaScript undefined, as the value of an identifier field
Undefined == "undefined"
\* m.f for an identifier field f: undefined when the payload does not carry it
Field(m, f) == IF f \in DOMAIN m THEN m[f] ELSE Undefined
\* !m.f for a payload m: a field the payload does not carry is undefined
Falsy(m, f) == f \notin DOMAIN m

\* the values crypto.randomUUID() returns, in the order it returns them
Uuids == <<"u1", "u2", "u3", "u4", "u5", "u6", "u7">>

VARIABLES
  docs,       \* server: docs Map; its keys are DOMAIN docs, values {boxes: {page: Box[]}}
  rooms,      \* server: Socket.IO rooms, docId -> set of enrolled sockets
  toServer,   \* per participant: events emitted, not yet handled by the server
  toClient,   \* per participant: events the server emitted to its socket
  sock,       \* per participant: "none" (not mounted), "open", "closed"
  boxes,      \* per participant: boxes state, page -> Box[]
  images,     \* per participant: images state, page -> Image[]
  nextId,     \* ids handed out by crypto.randomUUID() so far
  emits,      \* events emitted so far (bounded by MaxEmits)
  \* one editing session (SpecHist)
  fileUrl,      \* the fileUrl prop
  sessDoc,      \* whether the session was given a docId
  history,      \* history state: sequence of {bytes, url}
  historyIndex, \* historyIndex state, 0-based, -1 while history is empty
  pdfBuffer,    \* pdfBuffer state: the current document bytes
  editedUrl,    \* editedUrl state: the current retrieval URL
  store,        \* the annotation store's contents (boxes and images)
  fetching,     \* fetches of the fileUrl effect in flight, per file
  urlFetches,   \* fetches of the editedUrl effect in flight
  jobs,         \* recompositions in flight (a bag)
  started,      \* recompositions started so far (bounded by MaxRecompose)
  opened,       \* fileUrl changes so far (bounded by MaxOpens)
  pushes,       \* history: entries pushed since the history was last started
  undone,       \* history: whether an undo moved the cursor since then
  \* one recomposition seen as a computation (SpecDraw)
  scale,        \* the scale state, in tenths (12 is 1.2)
  pageCount,    \* pages of the document being recomposed
  toEmbed,      \* boxesToEmbed and imagesToEmbed, per page
  hasFile,      \* whether the fileUrl prop is set
  served,       \* the draws in the document the edited URL serves, per page
  outcome,      \* how the last recomposition ended: "none", "pushed", "failed"
  drawSteps,    \* recompositions and zoom clicks so far (bounded by MaxDrawSteps)
  \* the upload endpoints (SpecUpload)
  storage,      \* files written to the uploads directory, per backend
  reply,        \* the response to the last upload request
  uploadsDone,  \* upload requests so far (bounded by MaxUploads)
  \* the document endpoints GET /doc/:docId and POST /doc/:docId
  httpReqs,     \* requests in flight to the server
  httpResps,    \* answers of GET /doc in flight to their sender
  loadSent,     \* per participant, whether its loadDoc effect has run
  loadedUrl,    \* per participant, the pdfUrl loadDoc's answer put in editedUrl
  httpCalls,    \* requests sent so far (bounded by MaxHttp, MaxRawHttp)
  \* the text of page 1 and its inline replacement (SpecExtract, SpecInline)
  stream,       \* the operator list of page 1 of the current bytes
  pdfTextItems, \* pdfTextItems state: the text blocks extracted from page 1
  editBlock,    \* editBlock state: the block being replaced, or NoBlock
  controls,     \* fontSizeInput, fontColorHex and boldToggle states
  inlineSaves,  \* inline replacements started so far (bounded by MaxInline)
  \* pointer gestures on the annotations and the rebuilds they schedule
  held,         \* the drag or resize in progress, with what its closures hold
  timers,       \* setTimeout callbacks not yet run: the arguments of the rebuild
  gestures      \* drags, resizes and blurs so far (bounded by MaxGestures)

syncVars == <<docs, rooms, toServer, toClient, sock, boxes, images, nextId, emits>>

histVars == <<fileUrl, sessDoc, history, historyIndex, pdfBuffer, editedUrl, store,
              fetching, urlFetches, jobs, started, opened, pushes, undone>>

drawVars == <<scale, pageCount, toEmbed, hasFile, served, outcome, drawSteps>>

upVars == <<storage, reply, uploadsDone>>

httpVars == <<httpReqs, httpResps, loadSent, loadedUrl, httpCalls>>

textVars == <<stream, pdfTextItems, editBlock, controls, inlineSaves>>

gestVars == <<held, timers, gestures>>

extVars == <<drawVars, upVars, httpVars, textVars, gestVars>>

\* what the document endpoints and their callers leave alone
offRoom == <<histVars, drawVars, upVars, textVars, gestVars>>

\* everything but the variables of a recomposition run
exceptDraw == <<syncVars, histVars, upVars, httpVars, textVars, gestVars>>

\* everything but the variables of the upload endpoints
exceptUp == <<syncVars, histVars, drawVars, httpVars, textVars, gestVars>>

vars == <<docs, rooms, toServer, toClient, sock, boxes, images, nextId, emits,
          fileUrl, sessDoc, history, historyIndex, pdfBuffer, editedUrl, store,
          fetching, urlFetches, jobs, started, opened, pushes, undone,
          scale, pageCount, toEmbed, hasFile, served, outcome, drawSteps,
          storage, reply, uploadsDone,
          httpReqs, httpResps, loadSent, loadedUrl, httpCalls,
          stream, pdfTextItems, editBlock, controls, inlineSaves,
          held, timers, gestures>>

(***************************************************************************)
(* Page-indexed lists.  A JS object {page: list} is a function on Pages;   *)
(* a page the object has no key for reads as [] (`obj[page] || []`).       *)
(***************************************************************************)
EmptyPages == [p \in Pages |-> <<>>]

\* arr.findIndex(b => b.id === id): 0-based, -1 when absent
FindIndex(arr, id) ==
  IF \E k \in 1..Len(arr) : arr[k].id = id
  THEN (CHOOSE k \in 1..Len(arr) :
          arr[k].id = id /\ \A j \in 1..(k-1) : arr[j].id # id) - 1
  ELSE -1

\* mutant: { ...patch, ...b }, the entity's own fields win
Spread_OldWins(b, patch) ==
  [f \in (DOMAIN b) \cup (DOMAIN patch) |->
     IF f \in DOMAIN b THEN b[f] ELSE patch[f]]

\* { ...b, ...patch }
Spread(b, patch) ==
  [f \in (DOMAIN b) \cup (DOMAIN patch) |->
     IF f \in DOMAIN patch THEN patch[f] ELSE b[f]]

\* arr.filter(b => b.id !== id)
FilterOut(arr, id) == SelectSeq(arr, LAMBDA b : b.id # id)

\* mutant: the patched item is moved behind the others
PatchAt_MoveToEnd(arr, i, patch) ==
  SubSeq(arr, 1, i) \o SubSeq(arr, i + 2, Len(arr)) \o <<Spread(arr[i + 1], patch)>>

\* clone = [...arr]; clone[i] = { ...clone[i], ...patch }   (i is 0-based)
PatchAt(arr, i, patch) == [arr EXCEPT ![i + 1] = Spread(arr[i + 1], patch)]

(***************************************************************************)
(* Server: src/unnamed/part_001, io.on("connection") handlers.             *)
(***************************************************************************)
\* docs.get(docId) || { boxes: {} }
DocOrEmpty(d) == IF d \in DOMAIN docs THEN docs[d] ELSE [boxes |-> EmptyPages]

\* docs.set(docId, state)
DocsSet(d, state) ==
  [x \in (DOMAIN docs) \cup {d} |-> IF x = d THEN state ELSE docs[x]]

\* mutant: socket.emit(ev), which reaches the sender's socket only
RoomCast_ToSender(c, d, ev) ==
  [p \in Clients |-> IF p = c THEN Append(toClient[p], ev) ELSE toClient[p]]

\* mutant: io.to(docId).emit(ev), which reaches the sender too
RoomCast_Echo(c, d, ev) ==
  [p \in Clients |->
     IF p \in rooms[d] THEN Append(toClient[p], ev) ELSE toClient[p]]

\* socket.to(docId).emit(ev): every socket enrolled in the room but the sender
RoomCast(c, d, ev) ==
  [p \in Clients |->
     IF p \in rooms[d] /\ p # c THEN Append(toClient[p], ev) ELSE toClient[p]]

\* socket.emit(ev): the sender's own socket
Reply(c, ev) == [toClient EXCEPT ![c] = Append(@, ev)]

\* the server takes the next event of c's connection off the wire
Incoming(c, type) ==
  /\ toServer[c] # <<>>
  /\ Head(toServer[c]).type = type
  /\ toServer' = [toServer EXCEPT ![c] = Tail(@)]

\* the early return of a handler: nothing but the event is consumed
Dropped == UNCHANGED <<docs, rooms, toClient>>

\* the guards the handlers return early on
JoinInvalid(m) == Falsy(m, "docId")
AddBoxInvalid(m) == Falsy(m, "docId") \/ Falsy(m, "pageNumber") \/ Falsy(m, "box")
\* mutant: the guard without its boxId test
BoxIdInvalid_NoIdTest(m) == Falsy(m, "docId") \/ Falsy(m, "pageNumber")
BoxIdInvalid(m) == Falsy(m, "docId") \/ Falsy(m, "pageNumber") \/ Falsy(m, "boxId")
LockInvalid(m) == Falsy(m, "docId") \/ Falsy(m, "boxId")

ServerJoin(c) ==
  /\ Incoming(c, "join")
  /\ LET m == Head(toServer[c]) IN
     IF JoinInvalid(m) THEN Dropped
     ELSE LET d == m.docId
              created == IF d \in DOMAIN docs THEN docs
                         ELSE DocsSet(d, [boxes |-> EmptyPages])
          IN /\ rooms' = [rooms EXCEPT ![d] = @ \cup {c}]
             /\ docs' = created
             /\ toClient' = Reply(c, [type |-> "init_state", boxes |-> created[d].boxes])
  /\ UNCHANGED <<sock, boxes, images, nextId, emits>>
  /\ UNCHANGED histVars
  /\ UNCHANGED extVars

ServerAddBox(c) ==
  /\ Incoming(c, "add_box")
  /\ LET m == Head(toServer[c]) IN
     IF AddBoxInvalid(m) THEN Dropped
     ELSE LET state == DocOrEmpty(m.docId)
              arr == state.boxes[m.pageNumber]
          IN /\ docs' = DocsSet(m.docId,
                          [state EXCEPT !.boxes[m.pageNumber] = Append(arr, m.box)])
             /\ toClient' = RoomCast(c, m.docId,
                   [type |-> "box_added", pageNumber |-> m.pageNumber, box |-> m.box])
             /\ UNCHANGED rooms
  /\ UNCHANGED <<sock, boxes, images, nextId, emits>>
  /\ UNCHANGED histVars
  /\ UNCHANGED extVars

ServerUpdateBox(c) ==
  /\ Incoming(c, "update_box")
  /\ LET m == Head(toServer[c]) IN
     IF BoxIdInvalid(m) THEN Dropped
     ELSE LET state == DocOrEmpty(m.docId)
              arr == state.boxes[m.pageNumber]
              i == FindIndex(arr, Field(m, "boxId"))
          IN IF i < 0 THEN Dropped
             ELSE /\ docs' = DocsSet(m.docId,
                        [state EXCEPT !.boxes[m.pageNumber] = PatchAt(arr, i, m.patch)])
                  /\ toClient' = RoomCast(c, m.docId,
                        [type |-> "box_updated", pageNumber |-> m.pageNumber,
                         boxId |-> Field(m, "boxId"), patch |-> m.patch])
                  /\ UNCHANGED rooms
  /\ UNCHANGED <<sock, boxes, images, nextId, emits>>
  /\ UNCHANGED histVars
  /\ UNCHANGED extVars

ServerDeleteBox(c) ==
  /\ Incoming(c, "delete_box")
  /\ LET m == Head(toServer[c]) IN
     IF BoxIdInvalid(m) THEN Dropped
     ELSE LET state == DocOrEmpty(m.docId)
          IN /\ docs' = DocsSet(m.docId,
                   [state EXCEPT !.boxes[m.pageNumber] = FilterOut(@, Field(m, "boxId"))])
             /\ toClient' = RoomCast(c, m.docId,
                   [type |-> "box_deleted", pageNumber |-> m.pageNumber,
                    boxId |-> Field(m, "boxId")])
             /\ UNCHANGED rooms
  /\ UNCHANGED <<sock, boxes, images, nextId, emits>>
  /\ UNCHANGED histVars
  /\ UNCHANGED extVars

ServerLockBox(c) ==
  /\ Incoming(c, "lock_box")
  /\ LET m == Head(toServer[c]) IN
     IF LockInvalid(m) THEN Dropped
     ELSE /\ toClient' = RoomCast(c, m.docId, [type |-> "box_locked", boxId |-> Field(m, "boxId")])
          /\ UNCHANGED <<docs, rooms>>
  /\ UNCHANGED <<sock, boxes, images, nextId, emits>>
  /\ UNCHANGED histVars
  /\ UNCHANGED extVars

ServerUnlockBox(c) ==
  /\ Incoming(c, "unlock_box")
  /\ LET m == Head(toServer[c]) IN
     IF LockInvalid(m) THEN Dropped
     ELSE /\ toClient' = RoomCast(c, m.docId, [type |-> "box_unlocked", boxId |-> Field(m, "boxId")])
          /\ UNCHANGED <<docs, rooms>>
  /\ UNCHANGED <<sock, boxes, images, nextId, emits>>
  /\ UNCHANGED histVars
  /\ UNCHANGED extVars

\* the events the server registers a handler for
HandledTypes == {"join", "add_box", "update_box", "delete_box", "lock_box", "unlock_box"}

\* an event no socket.on() was registered for is discarded by Socket.IO
ServerUnhandled(c) ==
  /\ toServer[c] # <<>>
  /\ Head(toServer[c]).type \notin HandledTypes \cup {"disconnect"}
  /\ toServer' = [toServer EXCEPT ![c] = Tail(@)]
  /\ Dropped
  /\ UNCHANGED <<sock, boxes, images, nextId, emits>>
  /\ UNCHANGED histVars
  /\ UNCHANGED extVars

\* mutant: a room's state is deleted when its last participant leaves
ServerDisconnect_DropsEmptyRoom(c) ==
  /\ Incoming(c, "disconnect")
  /\ rooms' = [d \in DocIds |-> rooms[d] \ {c}]
  /\ docs' = [d \in {x \in DOMAIN docs : rooms[x] \ {c} # {}} |-> docs[d]]
  /\ UNCHANGED <<toClient, sock, boxes, images, nextId, emits>>
  /\ UNCHANGED histVars
  /\ UNCHANGED extVars

\* transport close: Socket.IO removes the socket from every room
ServerDisconnect(c) ==
  /\ Incoming(c, "disconnect")
  /\ rooms' = [d \in DocIds |-> rooms[d] \ {c}]
  /\ UNCHANGED <<docs, toClient, sock, boxes, images, nextId, emits>>
  /\ UNCHANGED histVars
  /\ UNCHANGED extVars

(***************************************************************************)
(* Participant: PdfEditor.jsx, socket effect and annotation store.         *)
(***************************************************************************)
\* socketRef.current?.emit(ev)
Emit(c, ev) ==
  /\ emits < MaxEmits
  /\ emits' = emits + 1
  /\ toServer' = [toServer EXCEPT ![c] = Append(@, ev)]

\* a socket handler of c runs on the next event the server sent it
Delivered(c, type) ==
  /\ sock[c] = "open"
  /\ toClient[c] # <<>>
  /\ Head(toClient[c]).type = type
  /\ toClient' = [toClient EXCEPT ![c] = Tail(@)]

\* { ...prev, [pageNumber]: list }
SetPage(prev, p, list) == [prev EXCEPT ![p] = list]

\* payload.f || {}
FieldOrEmpty(m, f) == IF f \in DOMAIN m THEN m[f] ELSE EmptyPages

\* mutant: an update of an absent id inserts the patch as a new item
UpdatedPages_Upsert(prev, p, id, patch) ==
  LET arr == prev[p]
      i == FindIndex(arr, id)
  IN IF i < 0 THEN SetPage(prev, p, Append(arr, Spread([id |-> id], patch)))
     ELSE SetPage(prev, p, PatchAt(arr, i, patch))

\* the box_updated handler's and updateBox's state update
UpdatedPages(prev, p, id, patch) ==
  LET arr == prev[p]
      i == FindIndex(arr, id)
  IN IF i < 0 THEN prev ELSE SetPage(prev, p, PatchAt(arr, i, patch))

\* box_locked / box_unlocked: every page's list mapped
LockMapped(prev, id, flag) ==
  [p \in Pages |->
     [k \in 1..Len(prev[p]) |->
        IF prev[p][k].id = id THEN Spread(prev[p][k], [locked |-> flag])
        ELSE prev[p][k]]]

\* mount: the socket effect connects and emits join
Mount(c) ==
  /\ sock[c] = "none"
  /\ sock' = [sock EXCEPT ![c] = "open"]
  /\ Emit(c, [type |-> "join", docId |-> docIdOf(c)])
  /\ UNCHANGED <<docs, rooms, toClient, boxes, images, nextId>>
  /\ UNCHANGED histVars
  /\ UNCHANGED extVars

\* unmount: the effect's cleanup, socket.disconnect()
Unmount(c) ==
  /\ sock[c] = "open"
  /\ sock' = [sock EXCEPT ![c] = "closed"]
  /\ Emit(c, [type |-> "disconnect"])
  /\ UNCHANGED <<docs, rooms, toClient, boxes, images, nextId>>
  /\ UNCHANGED histVars
  /\ UNCHANGED extVars

OnInitState(c) ==
  /\ Delivered(c, "init_state")
  /\ LET m == Head(toClient[c]) IN
     /\ boxes' = [boxes EXCEPT ![c] = FieldOrEmpty(m, "boxes")]
     /\ images' = [images EXCEPT ![c] = FieldOrEmpty(m, "images")]
  /\ UNCHANGED <<docs, rooms, toServer, sock, nextId, emits>>
  /\ UNCHANGED histVars
  /\ UNCHANGED extVars

OnBoxAdded(c) ==
  /\ Delivered(c, "box_added")
  /\ LET m == Head(toClient[c]) IN
     boxes' = [boxes EXCEPT ![c] =
                 SetPage(@, m.pageNumber, Append(@[m.pageNumber], m.box))]
  /\ UNCHANGED <<docs, rooms, toServer, sock, images, nextId, emits>>
  /\ UNCHANGED histVars
  /\ UNCHANGED extVars

OnBoxUpdated(c) ==
  /\ Delivered(c, "box_updated")
  /\ LET m == Head(toClient[c]) IN
     boxes' = [boxes EXCEPT ![c] = UpdatedPages(@, m.pageNumber, m.boxId, m.patch)]
  /\ UNCHANGED <<docs, rooms, toServer, sock, images, nextId, emits>>
  /\ UNCHANGED histVars
  /\ UNCHANGED extVars

OnBoxDeleted(c) ==
  /\ Delivered(c, "box_deleted")
  /\ LET m == Head(toClient[c]) IN
     boxes' = [boxes EXCEPT ![c] =
                 SetPage(@, m.pageNumber, FilterOut(@[m.pageNumber], m.boxId))]
  /\ UNCHANGED <<docs, rooms, toServer, sock, images, nextId, emits>>
  /\ UNCHANGED histVars
  /\ UNCHANGED extVars

OnBoxLocked(c) ==
  /\ Delivered(c, "box_locked")
  /\ boxes' = [boxes EXCEPT ![c] = LockMapped(@, Head(toClient[c]).boxId, TRUE)]
  /\ UNCHANGED <<docs, rooms, toServer, sock, images, nextId, emits>>
  /\ UNCHANGED histVars
  /\ UNCHANGED extVars

OnBoxUnlocked(c) ==
  /\ Delivered(c, "box_unlocked")
  /\ boxes' = [boxes EXCEPT ![c] = LockMapped(@, Head(toClient[c]).boxId, FALSE)]
  /\ UNCHANGED <<docs, rooms, toServer, sock, images, nextId, emits>>
  /\ UNCHANGED histVars
  /\ UNCHANGED extVars

(***************************************************************************)
(* Participant: gestures on the annotation store.                          *)
(***************************************************************************)
\* where a placement click lands, in screen pixels
ClickPositions == {[left |-> 50, top |-> 100]}
\* the partial objects an update carries
Patches == {[left |-> 60, top |-> 110], [text |-> "Hello"]}
\* identifiers an update may name
Ids == {"u1", "u2"}

NewBox(id, pos) ==
  [id |-> id, left |-> pos.left, top |-> pos.top, width |-> 180, height |-> 20,
   text |-> "Type...", fontSize |-> 12, color |-> "#000000", isBold |-> FALSE]

NewImage(id, pos) ==
  [id |-> id, left |-> pos.left, top |-> pos.top, width |-> 150, height |-> 100,
   imageType |-> "image/png"]

\* ids of the items a participant's page-indexed state holds
IdsIn(pagesOf) == UNION {{pagesOf[p][k].id : k \in 1..Len(pagesOf[p])} : p \in Pages}

addTextBox(c, p, pos) ==
  /\ sock[c] = "open"
  /\ LET box == NewBox(Uuids[nextId + 1], pos) IN
     /\ boxes' = [boxes EXCEPT ![c] = SetPage(@, p, Append(@[p], box))]
     /\ Emit(c, [type |-> "add_box", docId |-> docIdOf(c), pageNumber |-> p, box |-> box])
  /\ nextId' = nextId + 1
  /\ UNCHANGED <<docs, rooms, toClient, sock, images>>
  /\ UNCHANGED histVars
  /\ UNCHANGED extVars

updateBox(c, p, id, patch) ==
  /\ sock[c] = "open"
  /\ boxes' = [boxes EXCEPT ![c] = UpdatedPages(@, p, id, patch)]
  /\ Emit(c, [type |-> "update_box", docId |-> docIdOf(c), pageNumber |-> p,
              boxId |-> id, patch |-> patch])
  /\ UNCHANGED <<docs, rooms, toClient, sock, images, nextId>>
  /\ UNCHANGED histVars
  /\ UNCHANGED extVars

deleteBox(c, p, id) ==
  /\ sock[c] = "open"
  /\ boxes' = [boxes EXCEPT ![c] = SetPage(@, p, FilterOut(@[p], id))]
  /\ Emit(c, [type |-> "delete_box", docId |-> docIdOf(c), pageNumber |-> p, boxId |-> id])
  /\ UNCHANGED <<docs, rooms, toClient, sock, images, nextId>>
  /\ UNCHANGED histVars
  /\ UNCHANGED extVars

lock(c, id) ==
  /\ sock[c] = "open"
  /\ Emit(c, [type |-> "lock_box", docId |-> docIdOf(c), boxId |-> id])
  /\ UNCHANGED <<docs, rooms, toClient, sock, boxes, images, nextId>>
  /\ UNCHANGED histVars
  /\ UNCHANGED extVars

unlock(c, id) ==
  /\ sock[c] = "open"
  /\ Emit(c, [type |-> "unlock_box", docId |-> docIdOf(c), boxId |-> id])
  /\ UNCHANGED <<docs, rooms, toClient, sock, boxes, images, nextId>>
  /\ UNCHANGED histVars
  /\ UNCHANGED extVars

addImage(c, p, pos) ==
  /\ sock[c] = "open"
  /\ LET image == NewImage(Uuids[nextId + 1], pos) IN
     /\ images' = [images EXCEPT ![c] = SetPage(@, p, Append(@[p], image))]
     /\ Emit(c, [type |-> "add_image", docId |-> docIdOf(c), pageNumber |-> p,
                 image |-> image])
  /\ nextId' = nextId + 1
  /\ UNCHANGED <<docs, rooms, toClient, sock, boxes>>
  /\ UNCHANGED histVars
  /\ UNCHANGED extVars

updateImage(c, p, id, patch) ==
  /\ sock[c] = "open"
  /\ images' = [images EXCEPT ![c] = UpdatedPages(@, p, id, patch)]
  /\ Emit(c, [type |-> "update_image", docId |-> docIdOf(c), pageNumber |-> p,
              imageId |-> id, patch |-> patch])
  /\ UNCHANGED <<docs, rooms, toClient, sock, boxes, nextId>>
  /\ UNCHANGED histVars
  /\ UNCHANGED extVars

deleteImage(c, p, id) ==
  /\ sock[c] = "open"
  /\ images' = [images EXCEPT ![c] = SetPage(@, p, FilterOut(@[p], id))]
  /\ Emit(c, [type |-> "delete_image", docId |-> docIdOf(c), pageNumber |-> p,
              imageId |-> id])
  /\ UNCHANGED <<docs, rooms, toClient, sock, boxes, nextId>>
  /\ UNCHANGED histVars
  /\ UNCHANGED extVars

(***************************************************************************)
(* The relay is unauthenticated: a connection may emit any payload.        *)
(* RawMsgs are payloads with a required field left out.                    *)
(***************************************************************************)
RawBox == NewBox("u1", [left |-> 50, top |-> 100])

RawMsgs ==
  { [type |-> "join"],
    [type |-> "add_box", pageNumber |-> 1, box |-> RawBox],
    [type |-> "add_box", docId |-> "d1", box |-> RawBox],
    [type |-> "add_box", docId |-> "d1", pageNumber |-> 1],
    [type |-> "update_box", pageNumber |-> 1, boxId |-> "u1", patch |-> [text |-> "Hello"]],
    [type |-> "update_box", docId |-> "d1", boxId |-> "u1", patch |-> [text |-> "Hello"]],
    [type |-> "update_box", docId |-> "d1", pageNumber |-> 1, patch |-> [text |-> "Hello"]],
    [type |-> "delete_box", pageNumber |-> 1, boxId |-> "u1"],
    [type |-> "delete_box", docId |-> "d1", boxId |-> "u1"],
    [type |-> "delete_box", docId |-> "d1", pageNumber |-> 1],
    [type |-> "lock_box", boxId |-> "u1"],
    [type |-> "lock_box", docId |-> "d1"],
    [type |-> "unlock_box", boxId |-> "u1"],
    [type |-> "unlock_box", docId |-> "d1"] }

RawEmit(c, m) ==
  /\ sock[c] = "open"
  /\ Emit(c, m)
  /\ UNCHANGED <<docs, rooms, toClient, sock, boxes, images, nextId>>
  /\ UNCHANGED histVars
  /\ UNCHANGED extVars

(***************************************************************************)
(* One editing session: document bytes, history stack, recomposition.      *)
(* PdfEditor.jsx, fileUrl effect, pushHistory, handleUndo, handleRedo,     *)
(* rebuildPdfWithAllContent, embedAllContent.                              *)
(***************************************************************************)
Files == {"f1", "f2"}
NoFile == "null"
\* contents the annotation store moves between as the user edits
Stores == {"s0", "s1"}

\* the bytes a fetch of file f returns
OriginalBytes(f) == [file |-> f, drawn |-> "nothing"]
\* the bytes pdfDoc.save() returns after the store st was drawn onto file f
Recomposed(f, st) == [file |-> f, drawn |-> st]
NoBytes == [file |-> NoFile, drawn |-> "nothing"]

\* retrieval URLs: the file as opened, an uploaded copy, an object URL
FileRef(f) == [kind |-> "file", of |-> OriginalBytes(f)]
UploadedRef(bytes) == [kind |-> "uploaded", of |-> bytes]
BlobRef(bytes) == [kind |-> "blob", of |-> bytes]
NoRef == [kind |-> "null", of |-> NoBytes]

\* history[i] for a 0-based i; undefined outside the array
HasEntry(h, i) == 0 <= i /\ i < Len(h)
EntryAt(h, i) == h[i + 1]

\* prev.slice(0, end)
Slice0(h, end) ==
  IF end <= 0 THEN <<>> ELSE SubSeq(h, 1, IF end < Len(h) THEN end ELSE Len(h))

\* the history pushHistory's updater returns: cap is the historyIndex the
\* calling closure holds
PushedHistory(h, cap, bytes, url) ==
  Slice0(h, cap + 1) \o <<[bytes |-> bytes, url |-> url]>>

\* the state pushHistory leaves: setHistory(next), setHistoryIndex(next.length - 1)
pushHistory(cap, bytes, url) ==
  /\ history' = PushedHistory(history, cap, bytes, url)
  /\ historyIndex' = Len(PushedHistory(history, cap, bytes, url)) - 1
  /\ pushes' = pushes + 1
  /\ UNCHANGED undone

\* mutant: the Undo button's test lets the first entry through
canUndo_FromFirst(idx) == idx >= 0
canUndo(idx) == idx > 0
\* mutant: the Redo button's test lets the last entry through
canRedo_FromLast(h, idx) == idx >= 0 /\ idx < Len(h)
canRedo(h, idx) == idx >= 0 /\ idx < Len(h) - 1

\* what a session's undo and redo read and write
Session == [history |-> history, historyIndex |-> historyIndex,
            pdfBuffer |-> pdfBuffer, editedUrl |-> editedUrl]

\* setHistoryIndex(idx), then the entry's bytes become current; reading the
\* bytes of an entry that does not exist throws after setHistoryIndex ran
MovedTo(s, idx) ==
  IF HasEntry(s.history, idx)
  THEN [s EXCEPT !.historyIndex = idx,
                 !.pdfBuffer = EntryAt(s.history, idx).bytes,
                 !.editedUrl = BlobRef(EntryAt(s.history, idx).bytes)]
  ELSE [s EXCEPT !.historyIndex = idx]

\* mutant: undo also discards the entries after the one it moves to
Undone_Truncating(s) ==
  IF ~canUndo(s.historyIndex) THEN s
  ELSE [MovedTo(s, s.historyIndex - 1) EXCEPT
          !.history = Slice0(s.history, s.historyIndex)]

\* the session after handleUndo
Undone(s) ==
  IF ~canUndo(s.historyIndex) THEN s ELSE MovedTo(s, s.historyIndex - 1)

\* the session after handleRedo
Redone(s) ==
  IF ~canRedo(s.history, s.historyIndex) THEN s ELSE MovedTo(s, s.historyIndex + 1)

SetSession(s) ==
  /\ history' = s.history
  /\ historyIndex' = s.historyIndex
  /\ pdfBuffer' = s.pdfBuffer
  /\ editedUrl' = s.editedUrl

\* the editedUrl effect fetches a URL that is not an object URL
UrlFetchesFor(ref, pending) ==
  IF ref.kind = "uploaded" THEN pending \cup {ref.of} ELSE pending

\* mutant: undo also empties the annotation store
handleUndo_ResetsStore ==
  /\ SetSession(Undone(Session))
  /\ undone' = (undone \/ canUndo(historyIndex))
  /\ store' = IF canUndo(historyIndex) THEN "s0" ELSE store
  /\ UNCHANGED pushes
  /\ UNCHANGED syncVars
  /\ UNCHANGED extVars
  /\ UNCHANGED <<fileUrl, sessDoc, fetching, urlFetches, jobs, started, opened>>

handleUndo ==
  /\ SetSession(Undone(Session))
  /\ undone' = (undone \/ canUndo(historyIndex))
  /\ UNCHANGED pushes
  /\ UNCHANGED syncVars
  /\ UNCHANGED extVars
  /\ UNCHANGED <<fileUrl, sessDoc, store, fetching, urlFetches, jobs, started, opened>>

handleRedo ==
  /\ SetSession(Redone(Session))
  /\ UNCHANGED <<pushes, undone>>
  /\ UNCHANGED syncVars
  /\ UNCHANGED extVars
  /\ UNCHANGED <<fileUrl, sessDoc, store, fetching, urlFetches, jobs, started, opened>>

\* the editor is mounted with fileUrl f, with or without a docId, or its
\* fileUrl prop changes to f: the effect resets the stores and the edited URL
\* and starts fetching f
OpenFile(f, withDoc) ==
  /\ opened < MaxOpens
  /\ f # fileUrl
  /\ fileUrl # NoFile => withDoc = sessDoc
  /\ opened' = opened + 1
  /\ fileUrl' = f
  /\ sessDoc' = withDoc
  /\ store' = "s0"
  /\ editedUrl' = NoRef
  /\ fetching' = [fetching EXCEPT ![f] = @ + 1]
  /\ UNCHANGED <<pushes, undone>>
  /\ UNCHANGED syncVars
  /\ UNCHANGED extVars
  /\ UNCHANGED <<history, historyIndex, pdfBuffer, urlFetches, jobs, started>>

\* a fetch of the fileUrl effect resolves, for the file it was started for
FileFetched(f) ==
  /\ fetching[f] > 0
  /\ fetching' = [fetching EXCEPT ![f] = @ - 1]
  /\ pdfBuffer' = OriginalBytes(f)
  /\ history' = <<[bytes |-> OriginalBytes(f), url |-> FileRef(f)]>>
  /\ historyIndex' = 0
  /\ pushes' = 1
  /\ undone' = FALSE
  /\ UNCHANGED syncVars
  /\ UNCHANGED extVars
  /\ UNCHANGED <<fileUrl, sessDoc, editedUrl, store, urlFetches, jobs, started, opened>>

\* a fetch of the editedUrl effect resolves
UrlFetched(bytes) ==
  /\ bytes \in urlFetches
  /\ urlFetches' = urlFetches \ {bytes}
  /\ pdfBuffer' = bytes
  /\ UNCHANGED <<pushes, undone>>
  /\ UNCHANGED syncVars
  /\ UNCHANGED extVars
  /\ UNCHANGED <<fileUrl, sessDoc, history, historyIndex, editedUrl, store, fetching,
                 jobs, started, opened>>

\* a fetch of the fileUrl effect rejects: nothing is set
FileFetchFailed(f) ==
  /\ fetching[f] > 0
  /\ fetching' = [fetching EXCEPT ![f] = @ - 1]
  /\ UNCHANGED <<pushes, undone>>
  /\ UNCHANGED syncVars
  /\ UNCHANGED extVars
  /\ UNCHANGED <<fileUrl, sessDoc, history, historyIndex, pdfBuffer, editedUrl, store,
                 urlFetches, jobs, started, opened>>

\* a fetch of the editedUrl effect rejects: caught and ignored
UrlFetchFailed(bytes) ==
  /\ bytes \in urlFetches
  /\ urlFetches' = urlFetches \ {bytes}
  /\ UNCHANGED <<pushes, undone>>
  /\ UNCHANGED syncVars
  /\ UNCHANGED extVars
  /\ UNCHANGED <<fileUrl, sessDoc, history, historyIndex, pdfBuffer, editedUrl, store,
                 fetching, jobs, started, opened>>

\* a gesture changes the boxes or images of the store
Edit(st) ==
  /\ fileUrl # NoFile
  /\ st # store
  /\ store' = st
  /\ UNCHANGED <<pushes, undone>>
  /\ UNCHANGED syncVars
  /\ UNCHANGED extVars
  /\ UNCHANGED <<fileUrl, sessDoc, history, historyIndex, pdfBuffer, editedUrl,
                 fetching, urlFetches, jobs, started, opened>>

\* rebuildPdfWithAllContent is called: the call's closure holds the fileUrl,
\* the boxes and images and the historyIndex of the render it was made in
StartRecompose ==
  /\ fileUrl # NoFile
  /\ started < MaxRecompose
  /\ started' = started + 1
  /\ jobs' = jobs (+) SetToBag({[cap |-> historyIndex,
                                   bytes |-> Recomposed(fileUrl, store),
                                   stage |-> "composing"]})
  /\ UNCHANGED <<pushes, undone>>
  /\ UNCHANGED syncVars
  /\ UNCHANGED extVars
  /\ UNCHANGED <<fileUrl, sessDoc, history, historyIndex, pdfBuffer, editedUrl, store,
                 fetching, urlFetches, opened>>

\* mutant: a failed recomposition drops the current bytes
FailRecompose_DropsBytes(j) ==
  /\ BagIn(j, jobs) /\ j.stage = "composing"
  /\ jobs' = jobs (-) SetToBag({j})
  /\ pdfBuffer' = NoBytes
  /\ UNCHANGED <<pushes, undone>>
  /\ UNCHANGED syncVars
  /\ UNCHANGED extVars
  /\ UNCHANGED <<fileUrl, sessDoc, history, historyIndex, editedUrl, store,
                 fetching, urlFetches, started, opened>>

\* fetch, load, embed or save throws: logged, nothing else
FailRecompose(j) ==
  /\ BagIn(j, jobs) /\ j.stage = "composing"
  /\ jobs' = jobs (-) SetToBag({j})
  /\ UNCHANGED <<pushes, undone>>
  /\ UNCHANGED syncVars
  /\ UNCHANGED extVars
  /\ UNCHANGED <<fileUrl, sessDoc, history, historyIndex, pdfBuffer, editedUrl, store,
                 fetching, urlFetches, started, opened>>

\* uploadPdfBlob resolves: the uploaded copy becomes current and is pushed;
\* with a docId the call goes on to await saveDoc
UploadOk(j) ==
  /\ BagIn(j, jobs) /\ j.stage = "composing"
  /\ editedUrl' = UploadedRef(j.bytes)
  /\ urlFetches' = UrlFetchesFor(UploadedRef(j.bytes), urlFetches)
  /\ pdfBuffer' = j.bytes
  /\ pushHistory(j.cap, j.bytes, UploadedRef(j.bytes))
  /\ jobs' = IF sessDoc
             THEN (jobs (-) SetToBag({j})) (+) SetToBag({[j EXCEPT !.stage = "saving"]})
             ELSE jobs (-) SetToBag({j})
  /\ UNCHANGED syncVars
  /\ UNCHANGED extVars
  /\ UNCHANGED <<fileUrl, sessDoc, store, fetching, started, opened>>

\* mutant: a rejected upload ends the recomposition
UploadFailed_Fatal(j) ==
  /\ BagIn(j, jobs) /\ j.stage = "composing"
  /\ jobs' = jobs (-) SetToBag({j})
  /\ UNCHANGED <<syncVars, extVars>>
  /\ UNCHANGED <<fileUrl, sessDoc, history, historyIndex, pdfBuffer, editedUrl, store,
                 fetching, urlFetches, started, opened, pushes, undone>>

\* uploadPdfBlob rejects: an object URL becomes current and is pushed
UploadFailed(j) ==
  /\ BagIn(j, jobs) /\ j.stage = "composing"
  /\ editedUrl' = BlobRef(j.bytes)
  /\ pdfBuffer' = j.bytes
  /\ pushHistory(j.cap, j.bytes, BlobRef(j.bytes))
  /\ jobs' = jobs (-) SetToBag({j})
  /\ UNCHANGED syncVars
  /\ UNCHANGED extVars
  /\ UNCHANGED <<fileUrl, sessDoc, store, fetching, urlFetches, started, opened>>

\* saveDoc resolves
SaveDocOk(j) ==
  /\ BagIn(j, jobs) /\ j.stage = "saving"
  /\ jobs' = jobs (-) SetToBag({j})
  /\ UNCHANGED <<pushes, undone>>
  /\ UNCHANGED syncVars
  /\ UNCHANGED extVars
  /\ UNCHANGED <<fileUrl, sessDoc, history, historyIndex, pdfBuffer, editedUrl, store,
                 fetching, urlFetches, started, opened>>

\* saveDoc rejects: the catch branch of the upload runs after the try's push
SaveDocFailed(j) ==
  /\ BagIn(j, jobs) /\ j.stage = "saving"
  /\ editedUrl' = BlobRef(j.bytes)
  /\ pdfBuffer' = j.bytes
  /\ pushHistory(j.cap, j.bytes, BlobRef(j.bytes))
  /\ jobs' = jobs (-) SetToBag({j})
  /\ UNCHANGED syncVars
  /\ UNCHANGED extVars
  /\ UNCHANGED <<fileUrl, sessDoc, store, fetching, urlFetches, started, opened>>

FileStep ==
  \/ \E f \in Files, withDoc \in BOOLEAN : OpenFile(f, withDoc)
  \/ \E f \in Files : FileFetched(f)
  \/ \E f \in Files : FileFetchFailed(f)
  \/ \E b \in urlFetches : UrlFetched(b)
  \/ \E b \in urlFetches : UrlFetchFailed(b)

HistoryStep ==
  \/ handleUndo
  \/ handleRedo

RecomposeStep ==
  \/ \E st \in Stores : Edit(st)
  \/ StartRecompose
  \/ \E j \in BagToSet(jobs) : FailRecompose(j)
  \/ \E j \in BagToSet(jobs) : UploadOk(j)
  \/ \E j \in BagToSet(jobs) : UploadFailed(j)
  \/ \E j \in BagToSet(jobs) : SaveDocOk(j)
  \/ \E j \in BagToSet(jobs) : SaveDocFailed(j)

NextHist == FileStep \/ HistoryStep \/ RecomposeStep

(***************************************************************************)
(* Recomposition as a computation: the draws embedAllContent issues.       *)
(* Numbers are exact rationals; the rounding of doubles is not modelled.   *)
(***************************************************************************)
\* useState(1.2), in tenths
InitialScale == 12
\* Math.max(0.5, s - 0.1) and Math.min(2.0, s + 0.1), in tenths
MinScale == 5
MaxScale == 20
\* fontSizeInput as constructed, and the fallback of Number(fontSizeInput) || 12
DefaultFontSize == 12
\* page.getHeight() of the pages of the documents recomposed
PageHeightPt == 842

RECURSIVE Gcd(_, _)
Gcd(a, b) == IF b = 0 THEN a ELSE Gcd(b, a % b)

Abs(n) == IF n < 0 THEN -n ELSE n
Max(a, b) == IF a >= b THEN a ELSE b

\* the rational n/d in lowest terms with a positive denominator (d # 0)
Rat(n, d) ==
  LET g == Gcd(Abs(n), Abs(d))
      sgn == IF d < 0 THEN -1 ELSE 1
  IN [n |-> sgn * (n \div g), d |-> sgn * (d \div g)]

RInt(k) == [n |-> k, d |-> 1]
RAdd(a, b) == Rat(a.n * b.d + b.n * a.d, a.d * b.d)
RSub(a, b) == Rat(a.n * b.d - b.n * a.d, a.d * b.d)
RMul(a, b) == Rat(a.n * b.n, a.d * b.d)
RDiv(a, b) == Rat(a.n * b.d, a.d * b.n)
\* Math.max(0, a)
RMax0(a) == IF a.n < 0 THEN RInt(0) ELSE a

\* the scale state as a number
ScaleOf(s) == Rat(s, 10)

\* pdfX = left / scale
PdfX(left, s) == RDiv(RInt(left), ScaleOf(s))

\* pdfY = pageHeight - (top / scale) - (height / scale)
PdfY(top, height, h, s) ==
  RSub(RSub(RInt(h), RDiv(RInt(top), ScaleOf(s))), RDiv(RInt(height), ScaleOf(s)))

\* the PDF position embedAllContent computes for an annotation at a screen
\* position with a height
ToPdfSpace(pos, h, s) ==
  [x |-> PdfX(pos.left, s), y |-> PdfY(pos.top, pos.height, h, s)]

\* the screen position of the overlay of an extracted text item:
\* leftPx = item.x * scale, topPx = (pageSize.height - item.y) * scale
ToScreenSpace(item, h, s) ==
  [left |-> RMul(item.x, ScaleOf(s)),
   top |-> RMul(RSub(RInt(h), item.y), ScaleOf(s))]

\* texts whose trim() is empty
BlankTexts == {"", "  "}

\* !box.text || box.text.trim() === "" || box.text === "Type..."
SkippedBox(box) ==
  \/ "text" \notin DOMAIN box
  \/ box.text \in BlankTexts
  \/ box.text = "Type..."

\* box.fontSize || Number(fontSizeInput) || 12
BoxFontSize(box) ==
  IF "fontSize" \in DOMAIN box /\ box.fontSize # 0 THEN box.fontSize ELSE DefaultFontSize

\* page.drawText(box.text, {x: pdfX, y: pdfY + boxFontSize, size: boxFontSize})
TextDraw(box, h, s) ==
  [kind |-> "text", id |-> box.id, text |-> box.text, size |-> BoxFontSize(box),
   x |-> PdfX(box.left, s),
   y |-> RAdd(PdfY(box.top, box.height, h, s), RInt(BoxFontSize(box)))]

\* page.drawImage(pdfImage, {x: max(0, pdfX), y: max(0, pdfY), width, height})
ImageDraw(img, h, s) ==
  [kind |-> "image", id |-> img.id,
   x |-> RMax0(PdfX(img.left, s)), y |-> RMax0(PdfY(img.top, img.height, h, s)),
   width |-> RDiv(RInt(img.width), ScaleOf(s)),
   height |-> RDiv(RInt(img.height), ScaleOf(s))]

\* the decoder the declared type selects: embedJpg for jpeg, embedPng otherwise
FirstDecoder(img) ==
  IF img.imageType \in {"image/jpeg", "image/jpg"} THEN "jpeg" ELSE "png"

\* whether pdfImage is obtained: the selected decoder accepts the bytes, or
\* the catch branch's embedPng does; otherwise embedPng throws out of the loop
Embeds(img) == img.format = FirstDecoder(img) \/ img.format = "png"

RECURSIVE TextDraws(_, _, _)
\* the draws of the box loop over one page
TextDraws(bs, h, s) ==
  IF bs = <<>> THEN <<>>
  ELSE (IF SkippedBox(Head(bs)) THEN <<>> ELSE <<TextDraw(Head(bs), h, s)>>)
         \o TextDraws(Tail(bs), h, s)

RECURSIVE ImageDraws(_, _, _)
\* the draws of the image loop over one page, all of whose images embed
ImageDraws(is, h, s) ==
  IF is = <<>> THEN <<>>
  ELSE <<ImageDraw(Head(is), h, s)>> \o ImageDraws(Tail(is), h, s)

\* pageIndex >= 0 && pageIndex < pdfDoc.getPageCount()
OnDocument(p, n) == p >= 1 /\ p <= n

\* whether every image the image loop reaches embeds
AllEmbed(emb, n) ==
  \A p \in Pages : OnDocument(p, n) =>
    \A k \in 1..Len(emb.images[p]) : Embeds(emb.images[p][k])

\* the document after both loops ran to their end over the loaded document
Embedded(loaded, emb, n, h, s) ==
  [p \in Pages |->
     IF OnDocument(p, n)
     THEN loaded[p] \o TextDraws(emb.boxes[p], h, s) \o ImageDraws(emb.images[p], h, s)
     ELSE loaded[p]]

\* mutant: the rebuild starts from the document the edited URL serves
Loaded_FromEdited(file, edited) == edited

\* the document rebuildPdfWithAllContent loads: the file of the fileUrl prop,
\* which bears no draws of the editor, or without one the edited document
Loaded(file, edited) == IF file THEN EmptyPages ELSE edited

\* annotations the computation is run on
HelloBox ==
  [id |-> "u1", left |-> 50, top |-> 100, width |-> 180, height |-> 20,
   text |-> "Hello", fontSize |-> 12, color |-> "#000000", isBold |-> FALSE]
PlaceholderBox ==
  [id |-> "u2", left |-> 60, top |-> 110, width |-> 180, height |-> 20,
   text |-> "Type...", fontSize |-> 12, color |-> "#000000", isBold |-> FALSE]
PlainBox ==
  [id |-> "u3", left |-> 61, top |-> 7, width |-> 180, height |-> 32, text |-> "Hi"]
BlankBox ==
  [id |-> "u4", left |-> 10, top |-> 10, width |-> 180, height |-> 20,
   text |-> "  ", fontSize |-> 12, color |-> "#000000", isBold |-> FALSE]
BoxLists == {<<>>, <<HelloBox>>, <<HelloBox, PlaceholderBox>>, <<PlainBox, HelloBox>>,
             <<BlankBox>>}

PngImage ==
  [id |-> "u5", left |-> 30, top |-> 40, width |-> 150, height |-> 100,
   imageType |-> "image/png", format |-> "png"]
MislabelledImage ==
  [id |-> "u5", left |-> 30, top |-> 800, width |-> 150, height |-> 100,
   imageType |-> "image/jpeg", format |-> "png"]
BrokenImage ==
  [id |-> "u6", left |-> 30, top |-> 40, width |-> 150, height |-> 100,
   imageType |-> "image/gif", format |-> "gif"]
ImageLists == {<<>>, <<PngImage>>, <<MislabelledImage>>, <<BrokenImage>>,
               <<PngImage, BrokenImage>>}

\* rebuildPdfWithAllContent with the render's boxes, images and scale, up to the
\* push of the result, or to the catch that ends it
Recompose ==
  /\ drawSteps < MaxDrawSteps
  /\ drawSteps' = drawSteps + 1
  /\ IF AllEmbed(toEmbed, pageCount)
     THEN /\ served' = Embedded(Loaded(hasFile, served), toEmbed, pageCount,
                                PageHeightPt, scale)
          /\ outcome' = "pushed"
     ELSE /\ outcome' = "failed"
          /\ UNCHANGED served
  /\ UNCHANGED <<scale, pageCount, toEmbed, hasFile>>
  /\ UNCHANGED exceptDraw

\* mutant: the - button without its Math.max
ZoomOut_Unclamped ==
  /\ drawSteps < MaxDrawSteps
  /\ drawSteps' = drawSteps + 1
  /\ scale' = scale - 1
  /\ UNCHANGED <<pageCount, toEmbed, hasFile, served, outcome>>
  /\ UNCHANGED exceptDraw

\* the - button
ZoomOut ==
  /\ drawSteps < MaxDrawSteps
  /\ drawSteps' = drawSteps + 1
  /\ scale' = (IF scale - 1 < MinScale THEN MinScale ELSE scale - 1)
  /\ UNCHANGED <<pageCount, toEmbed, hasFile, served, outcome>>
  /\ UNCHANGED exceptDraw

\* the + button
ZoomIn ==
  /\ drawSteps < MaxDrawSteps
  /\ drawSteps' = drawSteps + 1
  /\ scale' = (IF scale + 1 > MaxScale THEN MaxScale ELSE scale + 1)
  /\ UNCHANGED <<pageCount, toEmbed, hasFile, served, outcome>>
  /\ UNCHANGED exceptDraw

NextDraw == Recompose \/ ZoomOut \/ ZoomIn

(***************************************************************************)
(* The document endpoints of the relay server (src/unnamed/part_001) and   *)
(* their callers loadDoc and saveDoc (PdfEditor.jsx).  Each fetch has its  *)
(* own connection, so requests and answers are unordered.                  *)
(***************************************************************************)
NoUrl == "none"

\* the url the upload endpoint answered a participant's recomposition with
UploadedUrl(c) == [uploadedBy |-> c]

\* docs.get(docId) || { boxes: {}, pdfUrl: undefined } on a given docs map
StateOrDefault(ds, d) == IF d \in DOMAIN ds THEN ds[d] ELSE [boxes |-> EmptyPages]

\* res.json(state): what GET /doc/:docId answers on a given docs map
GetBody(ds, d) == StateOrDefault(ds, d)

\* next = { boxes: payload.boxes || prev.boxes || {}, pdfUrl: payload.pdfUrl ?? prev.pdfUrl }
PostedState(prev, payload) ==
  LET b == IF "boxes" \in DOMAIN payload THEN payload.boxes ELSE prev.boxes IN
  IF "pdfUrl" \in DOMAIN payload THEN [boxes |-> b, pdfUrl |-> payload.pdfUrl]
  ELSE IF "pdfUrl" \in DOMAIN prev THEN [boxes |-> b, pdfUrl |-> prev.pdfUrl]
  ELSE [boxes |-> b]

\* fetch(): one more request in flight
Fetch(c, method, d, body, cap) ==
  /\ httpCalls < cap
  /\ httpCalls' = httpCalls + 1
  /\ httpReqs' = httpReqs \cup
       {[n |-> httpCalls + 1, from |-> c, method |-> method, docId |-> d, body |-> body]}

\* app.get("/doc/:docId")
HttpGet(r) ==
  /\ r \in httpReqs
  /\ r.method = "GET"
  /\ httpReqs' = httpReqs \ {r}
  /\ httpResps' = httpResps \cup
       {[n |-> r.n, to |-> r.from, docId |-> r.docId, state |-> GetBody(docs, r.docId)]}
  /\ UNCHANGED <<loadSent, loadedUrl, httpCalls>>
  /\ UNCHANGED syncVars
  /\ UNCHANGED offRoom

\* app.post("/doc/:docId"); its answer { ok: true } changes nothing a caller holds
HttpPost(r) ==
  /\ r \in httpReqs
  /\ r.method = "POST"
  /\ httpReqs' = httpReqs \ {r}
  /\ docs' = DocsSet(r.docId, PostedState(StateOrDefault(docs, r.docId), r.body))
  /\ UNCHANGED <<httpResps, loadSent, loadedUrl, httpCalls>>
  /\ UNCHANGED <<rooms, toServer, toClient, sock, boxes, images, nextId, emits>>
  /\ UNCHANGED offRoom

\* the loadDoc effect of a mounted editor: loadDoc(docId), once per mount
loadDoc(c) ==
  /\ sock[c] = "open"
  /\ ~loadSent[c]
  /\ loadSent' = [loadSent EXCEPT ![c] = TRUE]
  /\ Fetch(c, "GET", docIdOf(c), [none |-> TRUE], MaxHttp)
  /\ UNCHANGED <<httpResps, loadedUrl>>
  /\ UNCHANGED syncVars
  /\ UNCHANGED offRoom

\* loadDoc(docId).then(...): the answer arrives; after the effect's cleanup
\* (cancelled) it is ignored
OnLoadDoc(a) ==
  /\ a \in httpResps
  /\ a.to \in Editors
  /\ httpResps' = httpResps \ {a}
  /\ IF sock[a.to] # "open"
     THEN UNCHANGED <<boxes, images, loadedUrl>>
     ELSE /\ boxes' = [boxes EXCEPT ![a.to] = a.state.boxes]
          /\ images' = IF "images" \in DOMAIN a.state
                       THEN [images EXCEPT ![a.to] = a.state.images]
                       ELSE images
          /\ loadedUrl' = IF "pdfUrl" \in DOMAIN a.state
                          THEN [loadedUrl EXCEPT ![a.to] = a.state.pdfUrl]
                          ELSE loadedUrl
  /\ UNCHANGED <<httpReqs, loadSent, httpCalls>>
  /\ UNCHANGED <<docs, rooms, toServer, toClient, sock, nextId, emits>>
  /\ UNCHANGED offRoom

\* saveDoc(docId, { boxes, images }) of the beforeunload handler, and
\* saveDoc(docId, { boxes, images, pdfUrl: url }) after a recomposition's upload
saveDoc(c, withUrl) ==
  /\ sock[c] = "open"
  /\ Fetch(c, "POST", docIdOf(c),
           IF withUrl
           THEN [boxes |-> boxes[c], images |-> images[c], pdfUrl |-> UploadedUrl(c)]
           ELSE [boxes |-> boxes[c], images |-> images[c]],
           MaxHttp)
  /\ UNCHANGED <<httpResps, loadSent, loadedUrl>>
  /\ UNCHANGED syncVars
  /\ UNCHANGED offRoom

\* what typing leaves in a text box
TypedTexts == {"Hello"}

\* onInput of a text box: the box's text in the participant's own state
typeText(c, p, id, text) ==
  /\ sock[c] = "open"
  /\ FindIndex(boxes[c][p], id) >= 0
  /\ boxes[c][p][FindIndex(boxes[c][p], id) + 1].text # text
  /\ boxes' = [boxes EXCEPT ![c] =
                 SetPage(@, p, PatchAt(@[p], FindIndex(@[p], id), [text |-> text]))]
  /\ UNCHANGED <<docs, rooms, toServer, toClient, sock, images, nextId, emits>>
  /\ UNCHANGED histVars
  /\ UNCHANGED extVars

\* the endpoints are unauthenticated: any HTTP client may send any body
RawImage == NewImage("u2", [left |-> 50, top |-> 100])

RawBodies ==
  { [boxes |-> SetPage(EmptyPages, 1, <<RawBox>>),
     images |-> SetPage(EmptyPages, 1, <<RawImage>>),
     pdfUrl |-> UploadedUrl("C")],
    [boxes |-> EmptyPages],
    [pdfUrl |-> UploadedUrl("A")],
    [images |-> SetPage(EmptyPages, 2, <<RawImage>>)] }

RawFetch(c, method, d, body) ==
  /\ Fetch(c, method, d, body, MaxRawHttp)
  /\ UNCHANGED <<httpResps, loadSent, loadedUrl>>
  /\ UNCHANGED syncVars
  /\ UNCHANGED offRoom

HttpStep ==
  \/ \E r \in httpReqs : HttpGet(r)
  \/ \E r \in httpReqs : HttpPost(r)

DocApiStep ==
  \E c \in Editors :
    \/ loadDoc(c)
    \/ \E a \in httpResps : a.to = c /\ OnLoadDoc(a)
    \/ \E withUrl \in BOOLEAN : saveDoc(c, withUrl)
    \/ \E p \in Pages, id \in IdsIn(boxes[c]), text \in TypedTexts : typeText(c, p, id, text)

RawHttpStep ==
  \E c \in RawSenders, d \in DocIds :
    \/ RawFetch(c, "GET", d, [none |-> TRUE])
    \/ \E body \in RawBodies : RawFetch(c, "POST", d, body)

(***************************************************************************)
(* The upload endpoints: POST /api/files/upload of the files router        *)
(* (src/unnamed/part_000) and of the relay server (src/unnamed/part_001).  *)
(***************************************************************************)
Backends == {"router", "relay"}

\* the multipart file of a request: declared type and original name; a
\* request may carry no file, and a file may declare no type
UploadFiles ==
  {[mimetype |-> "application/pdf", originalname |-> "a.pdf"],
   [mimetype |-> "APPLICATION/PDF", originalname |-> "b.pdf"],
   [mimetype |-> "image/png", originalname |-> "c.png"],
   [mimetype |-> "image/gif", originalname |-> "d.gif"],
   [mimetype |-> "image/svg+xml", originalname |-> "e.svg"],
   [mimetype |-> "text/plain", originalname |-> "f.pdf"],
   [originalname |-> "g.pdf"]}
NoUpload == [none |-> TRUE]

\* toLowerCase() on the declared types above
Lower(t) == IF t = "APPLICATION/PDF" THEN "application/pdf" ELSE t

\* allowedTypes of the files router
AllowedTypes ==
  {"application/pdf", "image/jpeg", "image/jpg", "image/png", "image/gif",
   "image/webp", "image/bmp"}

\* mutant: the filter accepts every file
FileFilter_AcceptAll(b, file) == TRUE

\* fileFilter: cb(null, true) or cb(new Error(...))
FileFilter(b, file) ==
  IF b = "router"
  THEN "mimetype" \in DOMAIN file /\ file.mimetype \in AllowedTypes
  ELSE Lower(IF "mimetype" \in DOMAIN file THEN file.mimetype ELSE "") = "application/pdf"

NoReply == [status |-> "none"]

\* the name diskStorage writes the file under, Date.now() being the number of
\* the request
StoredName(file, n) == [name |-> file.originalname, ts |-> n]

\* upload.single("file") then the route handler: a request without a file is
\* answered 400; a file the filter refuses ends in the error handler before
\* diskStorage is called; otherwise the file is written and its URL returned
Upload(b, req) ==
  /\ uploadsDone < MaxUploads
  /\ uploadsDone' = uploadsDone + 1
  /\ IF req = NoUpload
     THEN /\ reply' = [status |-> "400"]
          /\ UNCHANGED storage
     ELSE IF ~FileFilter(b, req)
     THEN /\ reply' = [status |-> "error"]
          /\ UNCHANGED storage
     ELSE /\ storage' = [storage EXCEPT ![b] = @ \cup {StoredName(req, uploadsDone + 1)}]
          /\ reply' = [status |-> "200", url |-> StoredName(req, uploadsDone + 1)]
  /\ UNCHANGED exceptUp

NextUpload == \E b \in Backends, req \in UploadFiles \cup {NoUpload} : Upload(b, req)

(***************************************************************************)
(* Pointer gestures on the annotations of participant A and the rebuilds   *)
(* they schedule (PdfEditor.jsx 1246-1345, 1399-1450). The handlers move   *)
(* and up are created by onMouseDown and see the boxes and images of the   *)
(* render that created onMouseDown.                                        *)
(***************************************************************************)
NoGesture == [kind |-> "none"]

\* pointer travel since mousedown, ev.clientX - startX and ev.clientY - startY
Travels == {[dx |-> 2, dy |-> 1], [dx |-> 30, dy |-> 60]}

\* Math.abs(dx) > 3 || Math.abs(dy) > 3
BeyondThreshold(t) == Abs(t.dx) > 3 \/ Abs(t.dy) > 3

\* the item with this id in a page list
ItemOf(arr, id) == arr[FindIndex(arr, id) + 1]

\* onMouseDown of a text box, an image or an image's resize handle with the
\* select tool: move and up are registered on window
MouseDown(c, kind, p, id) ==
  /\ held = NoGesture
  /\ gestures < MaxGestures
  /\ FindIndex(IF kind = "box" THEN boxes[c][p] ELSE images[c][p], id) >= 0
  /\ gestures' = gestures + 1
  /\ held' = [kind |-> kind, page |-> p, id |-> id, moved |-> FALSE,
              boxes |-> boxes[c], images |-> images[c]]
  /\ UNCHANGED timers
  /\ UNCHANGED <<syncVars, histVars, drawVars, upVars, httpVars, textVars>>

\* move of a text box drag: the page list of the closure, with the box at
\* its start position plus the travel, replaces the page
BoxMove(c, t) ==
  /\ held.kind = "box"
  /\ held' = [held EXCEPT !.moved = @ \/ BeyondThreshold(t)]
  /\ IF held.moved \/ BeyondThreshold(t)
     THEN boxes' = [boxes EXCEPT ![c] =
            SetPage(@, held.page,
                    PatchAt(held.boxes[held.page],
                            FindIndex(held.boxes[held.page], held.id),
                            [left |-> ItemOf(held.boxes[held.page], held.id).left + t.dx,
                             top |-> ItemOf(held.boxes[held.page], held.id).top + t.dy]))]
     ELSE UNCHANGED boxes
  /\ UNCHANGED <<docs, rooms, toServer, toClient, sock, images, nextId, emits>>
  /\ UNCHANGED <<timers, gestures>>
  /\ UNCHANGED <<histVars, drawVars, upVars, httpVars, textVars>>

\* move of an image drag: updateImage with the start position plus the travel
ImageMove(c, t) ==
  /\ held.kind = "image"
  /\ held' = [held EXCEPT !.moved = @ \/ BeyondThreshold(t)]
  /\ IF held.moved \/ BeyondThreshold(t)
     THEN LET patch == [left |-> ItemOf(held.images[held.page], held.id).left + t.dx,
                        top |-> ItemOf(held.images[held.page], held.id).top + t.dy]
          IN /\ images' = [images EXCEPT ![c] = UpdatedPages(@, held.page, held.id, patch)]
             /\ Emit(c, [type |-> "update_image", docId |-> docIdOf(c),
                         pageNumber |-> held.page, imageId |-> held.id, patch |-> patch])
     ELSE UNCHANGED <<images, toServer, emits>>
  /\ UNCHANGED <<docs, rooms, toClient, sock, boxes, nextId>>
  /\ UNCHANGED <<timers, gestures>>
  /\ UNCHANGED <<histVars, drawVars, upVars, httpVars, textVars>>

\* newWidth = Math.max(50, startWidth + dx); newHeight = newWidth / aspectRatio
\* (the travels chosen give whole heights)
Resized(img, t) ==
  [width |-> Max(50, img.width + t.dx),
   height |-> (Max(50, img.width + t.dx) * img.height) \div img.width]

\* move of a resize: updateImage with the new width and height
ResizeMove(c, t) ==
  /\ held.kind = "resize"
  /\ held' = [held EXCEPT !.moved = TRUE]
  /\ images' = [images EXCEPT ![c] =
        UpdatedPages(@, held.page, held.id,
                     Resized(ItemOf(held.images[held.page], held.id), t))]
  /\ Emit(c, [type |-> "update_image", docId |-> docIdOf(c), pageNumber |-> held.page,
              imageId |-> held.id,
              patch |-> Resized(ItemOf(held.images[held.page], held.id), t)])
  /\ UNCHANGED <<docs, rooms, toClient, sock, boxes, nextId>>
  /\ UNCHANGED <<timers, gestures>>
  /\ UNCHANGED <<histVars, drawVars, upVars, httpVars, textVars>>

\* up: a drag that moved, and any resize, schedules
\* rebuildPdfWithAllContent(boxes, images) with the closure's boxes and images
MouseUp ==
  /\ held # NoGesture
  /\ held' = NoGesture
  /\ timers' = IF held.moved \/ held.kind = "resize"
               THEN timers \cup {[boxes |-> held.boxes, images |-> held.images]}
               ELSE timers
  /\ UNCHANGED gestures
  /\ UNCHANGED <<syncVars, histVars, drawVars, upVars, httpVars, textVars>>

\* onBlur of a text box: unlock(b.id); a box left with text schedules
\* rebuildPdfWithAllContent(boxes, images) with the last render's values
Blur(c, p, id) ==
  /\ held = NoGesture
  /\ gestures < MaxGestures
  /\ gestures' = gestures + 1
  /\ FindIndex(boxes[c][p], id) >= 0
  /\ Emit(c, [type |-> "unlock_box", docId |-> docIdOf(c), boxId |-> id])
  /\ timers' = IF SkippedBox(ItemOf(boxes[c][p], id))
               THEN timers
               ELSE timers \cup {[boxes |-> boxes[c], images |-> images[c]]}
  /\ UNCHANGED <<docs, rooms, toClient, sock, boxes, images, nextId>>
  /\ UNCHANGED held
  /\ UNCHANGED <<histVars, drawVars, upVars, httpVars, textVars>>

\* a setTimeout callback runs: rebuildPdfWithAllContent(boxesToUse,
\* imagesToUse) embeds its arguments, up to the push of the result or to the
\* catch that ends it
TimerFired(t) ==
  /\ t \in timers
  /\ timers' = timers \ {t}
  /\ toEmbed' = t
  /\ IF AllEmbed(t, pageCount)
     THEN /\ served' = Embedded(Loaded(hasFile, served), t, pageCount, PageHeightPt, scale)
          /\ outcome' = "pushed"
     ELSE /\ outcome' = "failed"
          /\ UNCHANGED served
  /\ UNCHANGED <<scale, pageCount, hasFile, drawSteps>>
  /\ UNCHANGED <<held, gestures>>
  /\ UNCHANGED <<syncVars, histVars, upVars, httpVars, textVars>>

\* rebuildPdfWithAllContent(boxesToUse, imagesToUse) up to the push of the
\* result or to the catch that ends it: an argument left undefined gives way
\* to the boxes or images of the calling render
Rebuilt(emb) ==
  /\ toEmbed' = emb
  /\ IF AllEmbed(emb, pageCount)
     THEN /\ served' = Embedded(Loaded(hasFile, served), emb, pageCount, PageHeightPt, scale)
          /\ outcome' = "pushed"
     ELSE /\ outcome' = "failed"
          /\ UNCHANGED served
  /\ UNCHANGED <<scale, pageCount, hasFile, drawSteps>>

\* the list deleteBox and deleteImage hand to the rebuild. React runs the
\* updater passed to setBoxes or setImages inside the call when the component
\* has no update pending (eager), and otherwise at the next render, after the
\* handler has called the rebuild: updatedBoxes is then still undefined and
\* boxesToUse || boxes takes the render's list
Remaining(eager, arr, id) == IF eager THEN FilterOut(arr, id) ELSE arr

\* deleteBox(pageNumber, boxId) with the delete tool: setBoxes, emit
\* delete_box, rebuildPdfWithAllContent(updatedBoxes, images)
deleteBoxAndRebuild(c, p, id, eager) ==
  /\ sock[c] = "open"
  /\ FindIndex(boxes[c][p], id) >= 0
  /\ boxes' = [boxes EXCEPT ![c] = SetPage(@, p, FilterOut(@[p], id))]
  /\ Emit(c, [type |-> "delete_box", docId |-> docIdOf(c), pageNumber |-> p, boxId |-> id])
  /\ Rebuilt([boxes |-> SetPage(boxes[c], p, Remaining(eager, boxes[c][p], id)),
              images |-> images[c]])
  /\ UNCHANGED <<docs, rooms, toClient, sock, images, nextId>>
  /\ UNCHANGED <<histVars, upVars, httpVars, textVars, gestVars>>

\* deleteImage(pageNumber, imageId): setImages, emit delete_image,
\* rebuildPdfWithAllContent(boxes, updatedImages)
deleteImageAndRebuild(c, p, id, eager) ==
  /\ sock[c] = "open"
  /\ FindIndex(images[c][p], id) >= 0
  /\ images' = [images EXCEPT ![c] = SetPage(@, p, FilterOut(@[p], id))]
  /\ Emit(c, [type |-> "delete_image", docId |-> docIdOf(c), pageNumber |-> p,
              imageId |-> id])
  /\ Rebuilt([boxes |-> boxes[c],
              images |-> SetPage(images[c], p, Remaining(eager, images[c][p], id))])
  /\ UNCHANGED <<docs, rooms, toClient, sock, boxes, nextId>>
  /\ UNCHANGED <<histVars, upVars, httpVars, textVars, gestVars>>

\* the annotations the gestures act on
Dragger == "A"

GestureKinds == {"box", "image", "resize"}

NextGesture ==
  \/ \E kind \in GestureKinds, p \in Pages, id \in {"u1", "u3", "u5"} :
       MouseDown(Dragger, kind, p, id)
  \/ \E t \in Travels : BoxMove(Dragger, t)
  \/ \E t \in Travels : ImageMove(Dragger, t)
  \/ \E t \in Travels : ResizeMove(Dragger, t)
  \/ MouseUp
  \/ \E p \in Pages, id \in {"u1", "u2", "u3"} : Blur(Dragger, p, id)
  \/ \E p \in Pages, id \in {"u2"}, text \in TypedTexts :
       held = NoGesture /\ typeText(Dragger, p, id, text)
  \/ \E t \in timers : TimerFired(t)

(***************************************************************************)
(* The text of page 1: extractTextItems (PdfEditor.jsx 176-237).           *)
(* Color components are in tenths (10 is 1.0).                             *)
(***************************************************************************)
\* let currentColor = { r: 0, g: 0, b: 0 }
Black == [r |-> 0, g |-> 0, b |-> 0]

\* the items page.getTextContent() returns for the glyph runs of the file's
\* own text: transform is [a, b, c, d, e, f]
GlyphRuns ==
  <<[str |-> "Name", transform |-> <<10, 0, 0, 10, 72, 700>>, width |-> 24,
     height |-> 10, fontName |-> "g_d0_f1"],
    [str |-> "Total", transform |-> <<14, 0, 0, -14, 72, 650>>, width |-> 35,
     height |-> 0, fontName |-> "Helvetica-BoldOblique"]>>

\* the operators page.getOperatorList() returns, with their arguments
SetRed == [fn |-> "setFillRGBColor", args |-> <<10, 0, 0>>]
SetBright == [fn |-> "setFillRGBColor", args |-> <<0, 0, 12>>]
SetGray == [fn |-> "setFillGrayColor", args |-> <<5>>]
SetSpace == [fn |-> "setFillColorSpace", args |-> <<"DeviceRGB">>]
ShowText(k) == [fn |-> "showText", args |-> <<GlyphRuns[k]>>]
Operators == {SetRed, SetBright, SetGray, SetSpace, ShowText(1), ShowText(2)}

\* Math.max(0, Math.min(1, num))
normalizeColorValue(val) == IF val < 0 THEN 0 ELSE IF val > 10 THEN 10 ELSE val

\* one turn of the loop over ops.fnArray: the color after operator op
ColorAfter(cur, op) ==
  IF op.fn = "setFillRGBColor" /\ Len(op.args) >= 3
  THEN [r |-> normalizeColorValue(op.args[1]),
        g |-> normalizeColorValue(op.args[2]),
        b |-> normalizeColorValue(op.args[3])]
  ELSE IF op.fn = "setFillGrayColor" /\ Len(op.args) >= 1
  THEN [r |-> normalizeColorValue(op.args[1]),
        g |-> normalizeColorValue(op.args[1]),
        b |-> normalizeColorValue(op.args[1])]
  ELSE IF op.fn = "setFillColorSpace"
  THEN Black
  ELSE cur

\* currentColor after the first n operators of ops
RECURSIVE ColorAt(_, _)
ColorAt(ops, n) ==
  IF n = 0 THEN Black ELSE ColorAfter(ColorAt(ops, n - 1), ops[n])

\* currentColor when the loop over the operator list has ended
currentColor(ops) == ColorAt(ops, Len(ops))

IsShowText(op) == op.fn = "showText"

\* textContent.items: the glyph runs of the stream, in stream order
TextContent(ops) ==
  [k \in 1..Len(SelectSeq(ops, IsShowText)) |->
     SelectSeq(ops, IsShowText)[k].args[1]]

\* /Bold|Semibold|Medium/gi.test(fontName) and /Italic|Oblique/gi.test(fontName)
BoldNames == {"Helvetica-Bold", "Helvetica-BoldOblique"}
ItalicNames == {"Helvetica-Oblique", "Helvetica-BoldOblique"}

\* the callback of textContent.items.map
TextItem(item, color) ==
  [str |-> item.str, x |-> item.transform[5], y |-> item.transform[6],
   fontSize |-> Abs(item.transform[4]), width |-> item.width,
   height |-> item.height, fontName |-> item.fontName,
   isBold |-> item.fontName \in BoldNames,
   isItalic |-> item.fontName \in ItalicNames,
   color |-> color]

\* the items extractTextItems hands to setPdfTextItems: the loop over the
\* operators runs to its end before the items are mapped
ExtractedItems(ops) ==
  [k \in 1..Len(TextContent(ops)) |-> TextItem(TextContent(ops)[k], currentColor(ops))]

\* extractTextItems(bytes, 1)
extractTextItems ==
  /\ pdfTextItems' = ExtractedItems(stream)
  /\ UNCHANGED <<stream, editBlock, controls, inlineSaves>>
  /\ UNCHANGED <<syncVars, histVars, drawVars, upVars, httpVars, gestVars>>

\* editBlock as constructed: useState(null)
NoBlock == [idx |-> -1]
\* useState(12), useState('#000000'), useState(false)
InitialControls == [fontSizeInput |-> 12, fontColorHex |-> "#000000", boldToggle |-> FALSE]

(***************************************************************************)
(* Inline replacement of a text block: handleSaveTextEditInline            *)
(* (PdfEditor.jsx 288-398). Bytes an inline replacement saved carry the    *)
(* draws it appended in a field inline.                                    *)
(***************************************************************************)
\* what the user may type over a block; an emptied editor gives item.str
\* (textContent || item.str)
TypedOver == {"Hi", ""}
NewStr(item, typed) == IF typed = "" THEN item.str ELSE typed

\* the values the user may set the size, color and bold controls to
ControlChoices ==
  {InitialControls,
   [fontSizeInput |-> 20, fontColorHex |-> "#00ff00", boldToggle |-> TRUE]}

\* hexToRgb01 of the colors of ControlChoices, in tenths
HexColor(hex) ==
  IF hex = "#00ff00" THEN [r |-> 0, g |-> 10, b |-> 0] ELSE Black

\* the draws earlier inline replacements appended to these bytes
InlineOf(bytes) == IF "inline" \in DOMAIN bytes THEN bytes.inline ELSE <<>>

\* the font embedded for the block: its weight and style as extracted
StandardFont(isBold, isItalic) ==
  IF isBold /\ isItalic THEN "Helvetica-BoldOblique"
  ELSE IF isBold THEN "Helvetica-Bold"
  ELSE IF isItalic THEN "Helvetica-Oblique"
  ELSE "Helvetica"

\* normalizeColor then Math.max(0, Math.min(1, ...)); a value above 1 is
\* taken as one of 0..255 (whole tenths kept)
normalizeColor(val) ==
  normalizeColorValue(IF val > 10 THEN val \div 255 ELSE val)

\* rgb(r, g, b) of item.color || black
TextColor(item) ==
  [r |-> normalizeColor(item.color.r), g |-> normalizeColor(item.color.g),
   b |-> normalizeColor(item.color.b)]

\* glyphs of the strings drawn
Glyphs(str) ==
  CASE str = "Name" -> 4 [] str = "Total" -> 5 [] str = "Hi" -> 2
    [] str = "Hello" -> 5 [] OTHER -> 0

\* font.widthOfTextAtSize(str, size), at a nominal half em per glyph
widthOfTextAtSize(str, size) == (Glyphs(str) * size) \div 2

\* item.height || (fontSizeToUse * 0.7)
ActualHeight(item) ==
  IF item.height # 0 THEN RInt(item.height) ELSE RMul(RInt(item.fontSize), Rat(7, 10))

\* page.drawRectangle({x: item.x - 1, y: coverY, width: textWidth,
\* height: coverHeight, color: rgb(1, 1, 1)})
CoverRect(item, newStr) ==
  [kind |-> "rect", x |-> item.x - 1,
   y |-> RSub(RInt(item.y), RMul(ActualHeight(item), Rat(2, 10))),
   width |-> Max(widthOfTextAtSize(item.str, item.fontSize),
                 widthOfTextAtSize(newStr, item.fontSize)) + 2,
   height |-> RMul(ActualHeight(item), Rat(11, 10)),
   color |-> [r |-> 10, g |-> 10, b |-> 10]]

\* mutant: the replacement is drawn with the size, color and bold controls
InlineText_FromControls(item, newStr) ==
  [kind |-> "text", text |-> newStr, x |-> item.x, y |-> item.y,
   size |-> controls.fontSizeInput,
   font |-> StandardFont(controls.boldToggle, FALSE),
   color |-> HexColor(controls.fontColorHex)]

\* page.drawText(newStr, {x: item.x, y: item.y, size: fontSizeToUse, font,
\* color: textColor})
InlineText(item, newStr) ==
  [kind |-> "text", text |-> newStr, x |-> item.x, y |-> item.y,
   size |-> item.fontSize,
   font |-> StandardFont(item.isBold, item.isItalic),
   color |-> TextColor(item)]

\* pdfDoc.save() after PDFDocument.load(bytes), drawRectangle and drawText
InlineEdited(bytes, item, newStr) ==
  [file |-> bytes.file, drawn |-> bytes.drawn,
   inline |-> InlineOf(bytes) \o <<CoverRect(item, newStr), InlineText(item, newStr)>>]

\* the operators of page 1 of file f as opened
FileStream(f) == <<SetRed, ShowText(1), SetGray, ShowText(2)>>

\* the operators a recomposition's draws leave on page 1: the store s1 holds
\* one text box there
DrawnStream(st) ==
  IF st = "s1"
  THEN <<[fn |-> "setFillRGBColor", args |-> <<0, 0, 0>>],
         [fn |-> "showText",
          args |-> <<[str |-> "Hello", transform |-> <<12, 0, 0, 12, 100, 500>>,
                      width |-> 30, height |-> 12, fontName |-> "Helvetica"]>>]>>
  ELSE <<>>

\* the operators of one appended draw: a rectangle sets its fill color, a
\* text draw sets its fill color and shows its glyph run
DrawOps(d) ==
  IF d.kind = "rect"
  THEN <<[fn |-> "setFillRGBColor", args |-> <<d.color.r, d.color.g, d.color.b>>]>>
  ELSE <<[fn |-> "setFillRGBColor", args |-> <<d.color.r, d.color.g, d.color.b>>],
         [fn |-> "showText",
          args |-> <<[str |-> d.text, transform |-> <<d.size, 0, 0, d.size, d.x, d.y>>,
                      width |-> widthOfTextAtSize(d.text, d.size), height |-> d.size,
                      fontName |-> d.font]>>]>>

RECURSIVE InlineStream(_)
InlineStream(ds) ==
  IF ds = <<>> THEN <<>> ELSE DrawOps(Head(ds)) \o InlineStream(Tail(ds))

\* the operator list of page 1 of bytes
StreamOf(bytes) ==
  FileStream(bytes.file) \o DrawnStream(bytes.drawn) \o InlineStream(InlineOf(bytes))

\* a click on the zone of an extracted block: setEditBlock({item, idx})
SelectBlock(idx) ==
  /\ idx \in DOMAIN pdfTextItems
  /\ editBlock' = [item |-> pdfTextItems[idx], idx |-> idx]
  /\ UNCHANGED <<stream, pdfTextItems, controls, inlineSaves>>
  /\ UNCHANGED <<syncVars, histVars, drawVars, upVars, httpVars, gestVars>>

\* the toolbar's size, color and bold controls
setControls(c) ==
  /\ controls' = c
  /\ UNCHANGED <<stream, pdfTextItems, editBlock, inlineSaves>>
  /\ UNCHANGED <<syncVars, histVars, drawVars, upVars, httpVars, gestVars>>

\* Enter or blur in the inline editor: handleSaveTextEditInline up to the
\* call of uploadPdfBlob. ensurePdfBytes returns pdfBuffer; pushHistory will
\* use the historyIndex of this render
handleSaveTextEditInline(typed) ==
  /\ editBlock # NoBlock
  /\ pdfBuffer # NoBytes
  /\ inlineSaves < MaxInline
  /\ inlineSaves' = inlineSaves + 1
  /\ jobs' = jobs (+) SetToBag({[cap |-> historyIndex,
                                 bytes |-> InlineEdited(pdfBuffer, editBlock.item,
                                                        NewStr(editBlock.item, typed)),
                                 stage |-> "inline"]})
  /\ UNCHANGED <<stream, pdfTextItems, editBlock, controls>>
  /\ UNCHANGED <<fileUrl, sessDoc, history, historyIndex, pdfBuffer, editedUrl, store,
                 fetching, urlFetches, started, opened, pushes, undone>>
  /\ UNCHANGED <<syncVars, drawVars, upVars, httpVars, gestVars>>

\* the end of handleSaveTextEditInline: setEditBlock(null), then
\* extractTextItems(newBytes, 1)
InlineDone(j) ==
  /\ jobs' = jobs (-) SetToBag({j})
  /\ editBlock' = NoBlock
  /\ stream' = StreamOf(j.bytes)
  /\ pdfTextItems' = ExtractedItems(StreamOf(j.bytes))
  /\ UNCHANGED <<controls, inlineSaves>>

\* uploadPdfBlob resolves: the uploaded copy becomes current and is pushed;
\* with a docId the call goes on to await saveDoc
InlineUploadOk(j) ==
  /\ BagIn(j, jobs) /\ j.stage = "inline"
  /\ editedUrl' = UploadedRef(j.bytes)
  /\ urlFetches' = UrlFetchesFor(UploadedRef(j.bytes), urlFetches)
  /\ pdfBuffer' = j.bytes
  /\ pushHistory(j.cap, j.bytes, UploadedRef(j.bytes))
  /\ IF sessDoc
     THEN /\ jobs' = (jobs (-) SetToBag({j}))
                       (+) SetToBag({[j EXCEPT !.stage = "inlineSaving"]})
          /\ UNCHANGED textVars
     ELSE InlineDone(j)
  /\ UNCHANGED <<fileUrl, sessDoc, store, fetching, started, opened>>
  /\ UNCHANGED <<syncVars, drawVars, upVars, httpVars, gestVars>>

\* uploadPdfBlob rejects: an object URL becomes current and is pushed
InlineUploadFailed(j) ==
  /\ BagIn(j, jobs) /\ j.stage = "inline"
  /\ editedUrl' = BlobRef(j.bytes)
  /\ pdfBuffer' = j.bytes
  /\ pushHistory(j.cap, j.bytes, BlobRef(j.bytes))
  /\ InlineDone(j)
  /\ UNCHANGED <<fileUrl, sessDoc, store, fetching, urlFetches, started, opened>>
  /\ UNCHANGED <<syncVars, drawVars, upVars, httpVars, gestVars>>

\* saveDoc resolves
InlineSaveDocOk(j) ==
  /\ BagIn(j, jobs) /\ j.stage = "inlineSaving"
  /\ InlineDone(j)
  /\ UNCHANGED <<fileUrl, sessDoc, history, historyIndex, pdfBuffer, editedUrl, store,
                 fetching, urlFetches, started, opened, pushes, undone>>
  /\ UNCHANGED <<syncVars, drawVars, upVars, httpVars, gestVars>>

\* saveDoc rejects: the catch branch runs after the try's push
InlineSaveDocFailed(j) ==
  /\ BagIn(j, jobs) /\ j.stage = "inlineSaving"
  /\ editedUrl' = BlobRef(j.bytes)
  /\ pdfBuffer' = j.bytes
  /\ pushHistory(j.cap, j.bytes, BlobRef(j.bytes))
  /\ InlineDone(j)
  /\ UNCHANGED <<fileUrl, sessDoc, store, fetching, urlFetches, started, opened>>
  /\ UNCHANGED <<syncVars, drawVars, upVars, httpVars, gestVars>>

InlineStep ==
  \/ \E idx \in 1..(2 + MaxInline + 1) : SelectBlock(idx)
  \/ \E c \in ControlChoices : setControls(c)
  \/ \E typed \in TypedOver : handleSaveTextEditInline(typed)
  \/ \E j \in BagToSet(jobs) : InlineUploadOk(j)
  \/ \E j \in BagToSet(jobs) : InlineUploadFailed(j)
  \/ \E j \in BagToSet(jobs) : InlineSaveDocOk(j)
  \/ \E j \in BagToSet(jobs) : InlineSaveDocFailed(j)

(***************************************************************************)
(* SpecSync                                                                *)
(***************************************************************************)
\* the server as started and an editor as constructed, nothing mounted yet
Init ==
  /\ docs = << >>
  /\ rooms = [d \in DocIds |-> {}]
  /\ toServer = [c \in Clients |-> <<>>]
  /\ toClient = [c \in Clients |-> <<>>]
  /\ sock = [c \in Clients |-> "none"]
  /\ boxes = [c \in Clients |-> EmptyPages]
  /\ images = [c \in Clients |-> EmptyPages]
  /\ nextId = 0
  /\ emits = 0
  /\ fileUrl = NoFile
  /\ sessDoc = FALSE
  /\ history = <<>>
  /\ historyIndex = -1
  /\ pdfBuffer = NoBytes
  /\ editedUrl = NoRef
  /\ store = "s0"
  /\ fetching = [f \in Files |-> 0]
  /\ urlFetches = {}
  /\ jobs = EmptyBag
  /\ started = 0
  /\ opened = 0
  /\ pushes = 0
  /\ undone = FALSE
  /\ scale = InitialScale
  /\ pageCount = 1
  /\ toEmbed = [boxes |-> EmptyPages, images |-> EmptyPages]
  /\ hasFile = TRUE
  /\ served = EmptyPages
  /\ outcome = "none"
  /\ drawSteps = 0
  /\ storage = [b \in Backends |-> {}]
  /\ reply = NoReply
  /\ uploadsDone = 0
  /\ httpReqs = {}
  /\ httpResps = {}
  /\ loadSent = [c \in Clients |-> FALSE]
  /\ loadedUrl = [c \in Clients |-> NoUrl]
  /\ httpCalls = 0
  /\ stream = <<>>
  /\ pdfTextItems = <<>>
  /\ editBlock = NoBlock
  /\ controls = InitialControls
  /\ inlineSaves = 0
  /\ held = NoGesture
  /\ timers = {}
  /\ gestures = 0

ServerStep ==
  \E c \in Clients :
    \/ ServerJoin(c)
    \/ ServerAddBox(c)
    \/ ServerUpdateBox(c)
    \/ ServerDeleteBox(c)
    \/ ServerLockBox(c)
    \/ ServerUnlockBox(c)
    \/ ServerUnhandled(c)
    \/ ServerDisconnect(c)

SocketStep ==
  \E c \in Clients :
    \/ Mount(c)
    \/ Unmount(c)
    \/ OnInitState(c)
    \/ OnBoxAdded(c)
    \/ OnBoxUpdated(c)
    \/ OnBoxDeleted(c)
    \/ OnBoxLocked(c)
    \/ OnBoxUnlocked(c)

GestureStep ==
  \E c \in Editors :
    \/ \E p \in Pages, pos \in ClickPositions : addTextBox(c, p, pos)
    \/ \E p \in Pages, id \in Ids, patch \in Patches : updateBox(c, p, id, patch)
    \/ \E p \in Pages, id \in IdsIn(boxes[c]) : deleteBox(c, p, id)
    \/ \E id \in IdsIn(boxes[c]) : lock(c, id)
    \/ \E id \in IdsIn(boxes[c]) : unlock(c, id)
    \/ \E p \in Pages, pos \in ClickPositions : addImage(c, p, pos)
    \/ \E p \in Pages, id \in IdsIn(images[c]), patch \in Patches : updateImage(c, p, id, patch)
    \/ \E p \in Pages, id \in IdsIn(images[c]) : deleteImage(c, p, id)

RawStep == \E c \in RawSenders, m \in RawMsgs : RawEmit(c, m)

NextSync == ServerStep \/ SocketStep \/ GestureStep \/ RawStep

SpecSync == Init /\ [][NextSync]_vars

SpecHist == Init /\ [][NextHist]_vars


\* an asynchronous step of a recomposition in flight settles
JobStep ==
  \E j \in BagToSet(jobs) :
    \/ FailRecompose(j)
    \/ UploadOk(j)
    \/ UploadFailed(j)
    \/ SaveDocOk(j)
    \/ SaveDocFailed(j)

\* SpecHist under fair scheduling: a promise a recomposition awaits settles
LiveHist == Init /\ [][NextHist]_vars /\ WF_vars(JobStep)

\* a recomposition run on annotations, a scale and a document drawn from the
\* sets above, everything else as constructed
InitDraw ==
  /\ docs = << >>
  /\ rooms = [d \in DocIds |-> {}]
  /\ toServer = [c \in Clients |-> <<>>]
  /\ toClient = [c \in Clients |-> <<>>]
  /\ sock = [c \in Clients |-> "none"]
  /\ boxes = [c \in Clients |-> EmptyPages]
  /\ images = [c \in Clients |-> EmptyPages]
  /\ nextId = 0
  /\ emits = 0
  /\ fileUrl = NoFile
  /\ sessDoc = FALSE
  /\ history = <<>>
  /\ historyIndex = -1
  /\ pdfBuffer = NoBytes
  /\ editedUrl = NoRef
  /\ store = "s0"
  /\ fetching = [f \in Files |-> 0]
  /\ urlFetches = {}
  /\ jobs = EmptyBag
  /\ started = 0
  /\ opened = 0
  /\ pushes = 0
  /\ undone = FALSE
  /\ scale \in {MinScale, 10, InitialScale, MaxScale}
  /\ pageCount \in Pages
  /\ toEmbed \in [boxes : [Pages -> BoxLists], images : [Pages -> ImageLists]]
  /\ hasFile \in BOOLEAN
  /\ served = EmptyPages
  /\ outcome = "none"
  /\ drawSteps = 0
  /\ storage = [b \in Backends |-> {}]
  /\ reply = NoReply
  /\ uploadsDone = 0
  /\ httpReqs = {}
  /\ httpResps = {}
  /\ loadSent = [c \in Clients |-> FALSE]
  /\ loadedUrl = [c \in Clients |-> NoUrl]
  /\ httpCalls = 0
  /\ stream = <<>>
  /\ pdfTextItems = <<>>
  /\ editBlock = NoBlock
  /\ controls = InitialControls
  /\ inlineSaves = 0
  /\ held = NoGesture
  /\ timers = {}
  /\ gestures = 0

SpecDraw == InitDraw /\ [][NextDraw]_vars

SpecUpload == Init /\ [][NextUpload]_vars

(***************************************************************************)
(* Two editors at work on a shared document: both have joined d1, and two  *)
(* boxes placed on page 1 have reached RoomState and both stores.          *)
(***************************************************************************)
SharedBoxes ==
  SetPage(EmptyPages, 1, <<NewBox("u1", [left |-> 50, top |-> 100]),
                           NewBox("u2", [left |-> 50, top |-> 100])>>)

\* the partial objects the editors' updates carry
MergePatches == {[left |-> 60, top |-> 110], [text |-> "Hello", left |-> 70]}

InitMerge ==
  /\ docs = [d \in {"d1"} |-> [boxes |-> SharedBoxes]]
  /\ rooms = [d \in DocIds |-> IF d = "d1" THEN Editors ELSE {}]
  /\ toServer = [c \in Clients |-> <<>>]
  /\ toClient = [c \in Clients |-> <<>>]
  /\ sock = [c \in Clients |-> IF c \in Editors THEN "open" ELSE "none"]
  /\ boxes = [c \in Clients |-> IF c \in Editors THEN SharedBoxes ELSE EmptyPages]
  /\ images = [c \in Clients |-> EmptyPages]
  /\ nextId = 2
  /\ emits = 0
  /\ fileUrl = NoFile
  /\ sessDoc = FALSE
  /\ history = <<>>
  /\ historyIndex = -1
  /\ pdfBuffer = NoBytes
  /\ editedUrl = NoRef
  /\ store = "s0"
  /\ fetching = [f \in Files |-> 0]
  /\ urlFetches = {}
  /\ jobs = EmptyBag
  /\ started = 0
  /\ opened = 0
  /\ pushes = 0
  /\ undone = FALSE
  /\ scale = InitialScale
  /\ pageCount = 1
  /\ toEmbed = [boxes |-> EmptyPages, images |-> EmptyPages]
  /\ hasFile = TRUE
  /\ served = EmptyPages
  /\ outcome = "none"
  /\ drawSteps = 0
  /\ storage = [b \in Backends |-> {}]
  /\ reply = NoReply
  /\ uploadsDone = 0
  /\ httpReqs = {}
  /\ httpResps = {}
  /\ loadSent = [c \in Clients |-> FALSE]
  /\ loadedUrl = [c \in Clients |-> NoUrl]
  /\ httpCalls = 0
  /\ stream = <<>>
  /\ pdfTextItems = <<>>
  /\ editBlock = NoBlock
  /\ controls = InitialControls
  /\ inlineSaves = 0
  /\ held = NoGesture
  /\ timers = {}
  /\ gestures = 0

MergeStep ==
  \E c \in Editors :
    \/ ServerAddBox(c)
    \/ ServerUpdateBox(c)
    \/ ServerDeleteBox(c)
    \/ OnBoxAdded(c)
    \/ OnBoxUpdated(c)
    \/ OnBoxDeleted(c)
    \/ \E pos \in ClickPositions : addTextBox(c, 1, pos)
    \/ \E id \in Ids, patch \in MergePatches : updateBox(c, 1, id, patch)
    \/ \E id \in IdsIn(boxes[c]) : deleteBox(c, 1, id)

SpecMerge == InitMerge /\ [][MergeStep]_vars

(***************************************************************************)
(* SpecExtract: page 1 of a document as opened, then its extraction.       *)
(***************************************************************************)
\* the content streams page 1 may carry
Streams == UNION {[1..n -> Operators] : n \in 0..MaxOps}

\* an editor as constructed, opened on a document with any content stream
InitExtract ==
  /\ docs = << >>
  /\ rooms = [d \in DocIds |-> {}]
  /\ toServer = [c \in Clients |-> <<>>]
  /\ toClient = [c \in Clients |-> <<>>]
  /\ sock = [c \in Clients |-> "none"]
  /\ boxes = [c \in Clients |-> EmptyPages]
  /\ images = [c \in Clients |-> EmptyPages]
  /\ nextId = 0
  /\ emits = 0
  /\ fileUrl = NoFile
  /\ sessDoc = FALSE
  /\ history = <<>>
  /\ historyIndex = -1
  /\ pdfBuffer = NoBytes
  /\ editedUrl = NoRef
  /\ store = "s0"
  /\ fetching = [f \in Files |-> 0]
  /\ urlFetches = {}
  /\ jobs = EmptyBag
  /\ started = 0
  /\ opened = 0
  /\ pushes = 0
  /\ undone = FALSE
  /\ scale = InitialScale
  /\ pageCount = 1
  /\ toEmbed = [boxes |-> EmptyPages, images |-> EmptyPages]
  /\ hasFile = TRUE
  /\ served = EmptyPages
  /\ outcome = "none"
  /\ drawSteps = 0
  /\ storage = [b \in Backends |-> {}]
  /\ reply = NoReply
  /\ uploadsDone = 0
  /\ httpReqs = {}
  /\ httpResps = {}
  /\ loadSent = [c \in Clients |-> FALSE]
  /\ loadedUrl = [c \in Clients |-> NoUrl]
  /\ httpCalls = 0
  /\ stream \in Streams
  /\ pdfTextItems = <<>>
  /\ editBlock = NoBlock
  /\ controls = InitialControls
  /\ inlineSaves = 0
  /\ held = NoGesture
  /\ timers = {}
  /\ gestures = 0

SpecExtract == InitExtract /\ [][extractTextItems]_vars

(***************************************************************************)
(* SpecGesture: participant A, joined to d1, with boxes and images placed, *)
(* drags, resizes, types and leaves text boxes; the scheduled rebuilds run.*)
(***************************************************************************)
\* the annotations A has placed: ids are distinct over the pages
PlacedBoxes ==
  {[p \in Pages |-> IF p = 1 THEN one ELSE two] :
     one \in {<<>>, <<HelloBox>>, <<HelloBox, PlaceholderBox>>},
     two \in {<<>>, <<PlainBox>>}}
PlacedImages ==
  {[p \in Pages |-> IF p = 1 THEN one ELSE <<>>] : one \in {<<>>, <<PngImage>>}}

InitGesture ==
  /\ rooms = [d \in DocIds |-> IF d = "d1" THEN {Dragger} ELSE {}]
  /\ toServer = [c \in Clients |-> <<>>]
  /\ toClient = [c \in Clients |-> <<>>]
  /\ sock = [c \in Clients |-> IF c = Dragger THEN "open" ELSE "none"]
  /\ boxes \in {[c \in Clients |-> IF c = Dragger THEN b ELSE EmptyPages] : b \in PlacedBoxes}
  /\ images \in {[c \in Clients |-> IF c = Dragger THEN i ELSE EmptyPages] : i \in PlacedImages}
  /\ docs = [d \in {"d1"} |-> [boxes |-> boxes[Dragger]]]
  /\ nextId = 5
  /\ emits = 0
  /\ fileUrl = NoFile
  /\ sessDoc = FALSE
  /\ history = <<>>
  /\ historyIndex = -1
  /\ pdfBuffer = NoBytes
  /\ editedUrl = NoRef
  /\ store = "s0"
  /\ fetching = [f \in Files |-> 0]
  /\ urlFetches = {}
  /\ jobs = EmptyBag
  /\ started = 0
  /\ opened = 0
  /\ pushes = 0
  /\ undone = FALSE
  /\ scale = InitialScale
  /\ pageCount = 2
  /\ toEmbed = [boxes |-> EmptyPages, images |-> EmptyPages]
  /\ hasFile = TRUE
  /\ served = EmptyPages
  /\ outcome = "none"
  /\ drawSteps = 0
  /\ storage = [b \in Backends |-> {}]
  /\ reply = NoReply
  /\ uploadsDone = 0
  /\ httpReqs = {}
  /\ httpResps = {}
  /\ loadSent = [c \in Clients |-> FALSE]
  /\ loadedUrl = [c \in Clients |-> NoUrl]
  /\ httpCalls = 0
  /\ stream = <<>>
  /\ pdfTextItems = <<>>
  /\ editBlock = NoBlock
  /\ controls = InitialControls
  /\ inlineSaves = 0
  /\ held = NoGesture
  /\ timers = {}
  /\ gestures = 0

SpecGesture == InitGesture /\ [][NextGesture]_vars


(***************************************************************************)
(* SpecOutsider: editors A and B joined to d1 and sharing two boxes, and a *)
(* connection C that is open and never sends join.                         *)
(***************************************************************************)
\* the events the connection that never joined sends, naming d1
OutsiderMsgs ==
  { [type |-> "add_box", docId |-> "d1", pageNumber |-> 1, box |-> RawBox],
    [type |-> "update_box", docId |-> "d1", pageNumber |-> 1, boxId |-> "u1",
     patch |-> [text |-> "Hello"]],
    [type |-> "delete_box", docId |-> "d1", pageNumber |-> 1, boxId |-> "u2"],
    [type |-> "lock_box", docId |-> "d1", boxId |-> "u1"] }

InitOutsider ==
  /\ docs = [d \in {"d1"} |-> [boxes |-> SharedBoxes]]
  /\ rooms = [d \in DocIds |-> IF d = "d1" THEN Editors ELSE {}]
  /\ toServer = [c \in Clients |-> <<>>]
  /\ toClient = [c \in Clients |-> <<>>]
  /\ sock = [c \in Clients |-> "open"]
  /\ boxes = [c \in Clients |-> IF c \in Editors THEN SharedBoxes ELSE EmptyPages]
  /\ images = [c \in Clients |-> EmptyPages]
  /\ nextId = 2
  /\ emits = 0
  /\ fileUrl = NoFile
  /\ sessDoc = FALSE
  /\ history = <<>>
  /\ historyIndex = -1
  /\ pdfBuffer = NoBytes
  /\ editedUrl = NoRef
  /\ store = "s0"
  /\ fetching = [f \in Files |-> 0]
  /\ urlFetches = {}
  /\ jobs = EmptyBag
  /\ started = 0
  /\ opened = 0
  /\ pushes = 0
  /\ undone = FALSE
  /\ scale = InitialScale
  /\ pageCount = 1
  /\ toEmbed = [boxes |-> EmptyPages, images |-> EmptyPages]
  /\ hasFile = TRUE
  /\ served = EmptyPages
  /\ outcome = "none"
  /\ drawSteps = 0
  /\ storage = [b \in Backends |-> {}]
  /\ reply = NoReply
  /\ uploadsDone = 0
  /\ httpReqs = {}
  /\ httpResps = {}
  /\ loadSent = [c \in Clients |-> FALSE]
  /\ loadedUrl = [c \in Clients |-> NoUrl]
  /\ httpCalls = 0
  /\ stream = <<>>
  /\ pdfTextItems = <<>>
  /\ editBlock = NoBlock
  /\ controls = InitialControls
  /\ inlineSaves = 0
  /\ held = NoGesture
  /\ timers = {}
  /\ gestures = 0

OutsiderStep ==
  \/ \E m \in OutsiderMsgs : \E c \in RawSenders : RawEmit(c, m)
  \/ \E c \in Clients :
       \/ ServerAddBox(c)
       \/ ServerUpdateBox(c)
       \/ ServerDeleteBox(c)
       \/ ServerLockBox(c)
  \/ \E c \in Editors :
       \/ OnBoxAdded(c)
       \/ OnBoxUpdated(c)
       \/ OnBoxDeleted(c)
       \/ OnBoxLocked(c)
       \/ \E id \in Ids : updateBox(c, 1, id, [left |-> 60, top |-> 110])

SpecOutsider == InitOutsider /\ [][OutsiderStep]_vars


(***************************************************************************)
(* SpecSwitch: one editing session whose fetches all succeed; the opened   *)
(* file may change while fetches and recompositions are in flight.         *)
(***************************************************************************)
SwitchStep ==
  \/ \E f \in Files, withDoc \in BOOLEAN : OpenFile(f, withDoc)
  \/ \E f \in Files : FileFetched(f)
  \/ \E b \in urlFetches : UrlFetched(b)
  \/ HistoryStep
  \/ RecomposeStep

SpecSwitch == Init /\ [][SwitchStep]_vars


(***************************************************************************)
(* SpecDelete: participant A, joined to d1, with boxes and images placed,  *)
(* deletes them one by one with the delete tool.                           *)
(***************************************************************************)
InitDelete ==
  /\ rooms = [d \in DocIds |-> IF d = "d1" THEN {Dragger} ELSE {}]
  /\ toServer = [c \in Clients |-> <<>>]
  /\ toClient = [c \in Clients |-> <<>>]
  /\ sock = [c \in Clients |-> IF c = Dragger THEN "open" ELSE "none"]
  /\ boxes \in {[c \in Clients |-> IF c = Dragger THEN b ELSE EmptyPages] : b \in PlacedBoxes}
  /\ images \in {[c \in Clients |-> IF c = Dragger THEN i ELSE EmptyPages] : i \in PlacedImages}
  /\ docs = [d \in {"d1"} |-> [boxes |-> boxes[Dragger]]]
  /\ nextId = 5
  /\ emits = 0
  /\ fileUrl = NoFile
  /\ sessDoc = FALSE
  /\ history = <<>>
  /\ historyIndex = -1
  /\ pdfBuffer = NoBytes
  /\ editedUrl = NoRef
  /\ store = "s0"
  /\ fetching = [f \in Files |-> 0]
  /\ urlFetches = {}
  /\ jobs = EmptyBag
  /\ started = 0
  /\ opened = 0
  /\ pushes = 0
  /\ undone = FALSE
  /\ scale \in {10, InitialScale}
  /\ pageCount \in Pages
  /\ toEmbed = [boxes |-> EmptyPages, images |-> EmptyPages]
  /\ hasFile = TRUE
  /\ served = EmptyPages
  /\ outcome = "none"
  /\ drawSteps = 0
  /\ storage = [b \in Backends |-> {}]
  /\ reply = NoReply
  /\ uploadsDone = 0
  /\ httpReqs = {}
  /\ httpResps = {}
  /\ loadSent = [c \in Clients |-> FALSE]
  /\ loadedUrl = [c \in Clients |-> NoUrl]
  /\ httpCalls = 0
  /\ stream = <<>>
  /\ pdfTextItems = <<>>
  /\ editBlock = NoBlock
  /\ controls = InitialControls
  /\ inlineSaves = 0
  /\ held = NoGesture
  /\ timers = {}
  /\ gestures = 0

NextDelete ==
  \E p \in Pages, eager \in BOOLEAN :
    \/ \E id \in {"u1", "u2", "u3"} : deleteBoxAndRebuild(Dragger, p, id, eager)
    \/ \E id \in {"u5"} : deleteImageAndRebuild(Dragger, p, id, eager)

SpecDelete == InitDelete /\ [][NextDelete]_vars


(***************************************************************************)
(* SpecRemote: editors A and B joined to d1 and sharing two boxes; A drags *)
(* u1 and types in u2 while B's deletes and updates are relayed to it.     *)
(***************************************************************************)
Peer == "B"

InitRemote ==
  /\ docs = [d \in {"d1"} |-> [boxes |-> SharedBoxes]]
  /\ rooms = [d \in DocIds |-> IF d = "d1" THEN Editors ELSE {}]
  /\ toServer = [c \in Clients |-> <<>>]
  /\ toClient = [c \in Clients |-> <<>>]
  /\ sock = [c \in Clients |-> IF c \in Editors THEN "open" ELSE "none"]
  /\ boxes = [c \in Clients |-> IF c \in Editors THEN SharedBoxes ELSE EmptyPages]
  /\ images = [c \in Clients |-> EmptyPages]
  /\ nextId = 2
  /\ emits = 0
  /\ fileUrl = NoFile
  /\ sessDoc = FALSE
  /\ history = <<>>
  /\ historyIndex = -1
  /\ pdfBuffer = NoBytes
  /\ editedUrl = NoRef
  /\ store = "s0"
  /\ fetching = [f \in Files |-> 0]
  /\ urlFetches = {}
  /\ jobs = EmptyBag
  /\ started = 0
  /\ opened = 0
  /\ pushes = 0
  /\ undone = FALSE
  /\ scale = InitialScale
  /\ pageCount = 1
  /\ toEmbed = [boxes |-> EmptyPages, images |-> EmptyPages]
  /\ hasFile = TRUE
  /\ served = EmptyPages
  /\ outcome = "none"
  /\ drawSteps = 0
  /\ storage = [b \in Backends |-> {}]
  /\ reply = NoReply
  /\ uploadsDone = 0
  /\ httpReqs = {}
  /\ httpResps = {}
  /\ loadSent = [c \in Clients |-> FALSE]
  /\ loadedUrl = [c \in Clients |-> NoUrl]
  /\ httpCalls = 0
  /\ stream = <<>>
  /\ pdfTextItems = <<>>
  /\ editBlock = NoBlock
  /\ controls = InitialControls
  /\ inlineSaves = 0
  /\ held = NoGesture
  /\ timers = {}
  /\ gestures = 0

NextRemote ==
  \/ \E id \in {"u1"} : MouseDown(Dragger, "box", 1, id)
  \/ \E t \in Travels : BoxMove(Dragger, t)
  \/ MouseUp
  \/ \E id \in {"u2"}, text \in TypedTexts :
       held = NoGesture /\ typeText(Dragger, 1, id, text)
  \/ \E id \in IdsIn(boxes[Peer]) : deleteBox(Peer, 1, id)
  \/ \E id \in IdsIn(boxes[Peer]) : updateBox(Peer, 1, id, [left |-> 60, top |-> 110])
  \/ ServerDeleteBox(Peer)
  \/ ServerUpdateBox(Peer)
  \/ OnBoxDeleted(Dragger)
  \/ OnBoxUpdated(Dragger)

SpecRemote == InitRemote /\ [][NextRemote]_vars


(***************************************************************************)
(* LiveLock: two editors share the boxes u1 and u2; one of them focuses    *)
(* and leaves text boxes and may close the editor, the other one watches.  *)
(***************************************************************************)
\* onFocus of a text box: lock(b.id); the box keeps the focus
onFocus(c, id) ==
  /\ held = NoGesture
  /\ sock[c] = "open"
  /\ emits + 2 <= MaxEmits
  /\ FindIndex(boxes[c][1], id) >= 0
  /\ Emit(c, [type |-> "lock_box", docId |-> docIdOf(c), boxId |-> id])
  /\ held' = [kind |-> "focus", page |-> 1, id |-> id]
  /\ UNCHANGED <<timers, gestures>>
  /\ UNCHANGED <<docs, rooms, toClient, sock, boxes, images, nextId>>
  /\ UNCHANGED <<histVars, drawVars, upVars, httpVars, textVars>>

\* onBlur of the focused text box: unlock(b.id); a box left with text
\* schedules a recomposition
onBlur(c) ==
  /\ held.kind = "focus"
  /\ sock[c] = "open"
  /\ Emit(c, [type |-> "unlock_box", docId |-> docIdOf(c), boxId |-> held.id])
  /\ held' = NoGesture
  /\ timers' = IF SkippedBox(ItemOf(boxes[c][held.page], held.id))
               THEN timers
               ELSE timers \cup {[boxes |-> boxes[c], images |-> images[c]]}
  /\ UNCHANGED gestures
  /\ UNCHANGED <<docs, rooms, toClient, sock, boxes, images, nextId>>
  /\ UNCHANGED <<histVars, drawVars, upVars, httpVars, textVars>>

\* the editor stops holding the focus: the box is left or the editor closed
Leave == onBlur(Dragger) \/ Unmount(Dragger)

\* the server handles what the editor sent, the watcher what it was sent
LockRelay ==
  \/ ServerLockBox(Dragger)
  \/ ServerUnlockBox(Dragger)
  \/ ServerDisconnect(Dragger)
  \/ OnBoxLocked(Peer)
  \/ OnBoxUnlocked(Peer)

NextLock ==
  \/ \E id \in IdsIn(boxes[Dragger]) : onFocus(Dragger, id)
  \/ \E text \in TypedTexts :
       /\ held.kind = "focus"
       /\ typeText(Dragger, held.page, held.id, text)
  \/ Leave
  \/ LockRelay

\* fair scheduling: messages are handled, and whoever holds
\* the focus of a box gives it up or closes the editor
LiveLock ==
  InitRemote /\ [][NextLock]_vars /\ WF_vars(LockRelay) /\ WF_vars(Leave)

(***************************************************************************)
(* SpecInline: a session whose file f1 has been fetched and extracted,     *)
(* straight after the fetch or after one recomposition of the store s1     *)
(* whose upload was rejected; then inline replacements.                    *)
(***************************************************************************)
FetchedHistory == <<[bytes |-> OriginalBytes("f1"), url |-> FileRef("f1")]>>
RecomposedHistory ==
  FetchedHistory \o <<[bytes |-> Recomposed("f1", "s1"),
                       url |-> BlobRef(Recomposed("f1", "s1"))]>>

InitInline ==
  /\ docs = << >>
  /\ rooms = [d \in DocIds |-> {}]
  /\ toServer = [c \in Clients |-> <<>>]
  /\ toClient = [c \in Clients |-> <<>>]
  /\ sock = [c \in Clients |-> "none"]
  /\ boxes = [c \in Clients |-> EmptyPages]
  /\ images = [c \in Clients |-> EmptyPages]
  /\ nextId = 0
  /\ emits = 0
  /\ fileUrl = "f1"
  /\ sessDoc \in BOOLEAN
  /\ history \in {FetchedHistory, RecomposedHistory}
  /\ historyIndex = Len(history) - 1
  /\ pdfBuffer = history[Len(history)].bytes
  /\ editedUrl = IF Len(history) = 1 THEN NoRef ELSE history[Len(history)].url
  /\ store = IF Len(history) = 1 THEN "s0" ELSE "s1"
  /\ fetching = [f \in Files |-> 0]
  /\ urlFetches = {}
  /\ jobs = EmptyBag
  /\ started = Len(history) - 1
  /\ opened = 1
  /\ pushes = Len(history)
  /\ undone = FALSE
  /\ scale = InitialScale
  /\ pageCount = 1
  /\ toEmbed = [boxes |-> EmptyPages, images |-> EmptyPages]
  /\ hasFile = TRUE
  /\ served = EmptyPages
  /\ outcome = "none"
  /\ drawSteps = 0
  /\ storage = [b \in Backends |-> {}]
  /\ reply = NoReply
  /\ uploadsDone = 0
  /\ httpReqs = {}
  /\ httpResps = {}
  /\ loadSent = [c \in Clients |-> FALSE]
  /\ loadedUrl = [c \in Clients |-> NoUrl]
  /\ httpCalls = 0
  /\ stream = StreamOf(pdfBuffer)
  /\ pdfTextItems = ExtractedItems(stream)
  /\ editBlock = NoBlock
  /\ controls = InitialControls
  /\ inlineSaves = 0
  /\ held = NoGesture
  /\ timers = {}
  /\ gestures = 0

SpecInline == InitInline /\ [][InlineStep]_vars

\* the endpoints alone, under any client
NextDoc == HttpStep \/ RawHttpStep

SpecDoc == Init /\ [][NextDoc]_vars

\* the relay's box handlers and the socket handlers of the editors
RelayStep ==
  \E c \in Editors :
    \/ ServerJoin(c)
    \/ ServerAddBox(c)
    \/ ServerDeleteBox(c)
    \/ ServerLockBox(c)
    \/ ServerUnlockBox(c)
    \/ ServerDisconnect(c)
    \/ Mount(c)
    \/ Unmount(c)
    \/ OnInitState(c)
    \/ OnBoxAdded(c)
    \/ OnBoxDeleted(c)
    \/ OnBoxLocked(c)
    \/ OnBoxUnlocked(c)

\* the text-box gestures of the editors
BoxGestureStep ==
  \E c \in Editors :
    \/ \E p \in Pages, pos \in ClickPositions : addTextBox(c, p, pos)
    \/ \E p \in Pages, id \in IdsIn(boxes[c]) : deleteBox(c, p, id)
    \/ \E id \in IdsIn(boxes[c]) : lock(c, id)
    \/ \E id \in IdsIn(boxes[c]) : unlock(c, id)

\* the relay, the endpoints and the editors
NextRoom == RelayStep \/ BoxGestureStep \/ HttpStep \/ DocApiStep

SpecRoom == Init /\ [][NextRoom]_vars

(***************************************************************************)
(* Properties of the relay (SpecSync).                                     *)
(***************************************************************************)
\* the step in which the server handles the first pending event of c
Handled(c) == toServer[c] # <<>> /\ toServer'[c] = Tail(toServer[c])
\* the step in which a socket handler of c runs on the first event sent to it
Received(c) ==
  sock[c] = "open" /\ toClient[c] # <<>> /\ toClient'[c] = Tail(toClient[c])

LastOf(q) == q[Len(q)]
TypesIn(q) == {q[k].type : k \in 1..Len(q)}

\* RoomState[docId].boxes, empty while the server has no entry for docId
CachedBoxes(d) == IF d \in DOMAIN docs THEN docs[d].boxes ELSE EmptyPages

BoxEvents == {"add_box", "update_box", "delete_box"}

\* a box event that carries every field its handler requires
WellFormedBoxEvent(m) ==
  /\ m.type \in BoxEvents
  /\ {"docId", "pageNumber"} \subseteq DOMAIN m
  /\ m.pageNumber \in Pages
  /\ IF m.type = "add_box" THEN "box" \in DOMAIN m ELSE "boxId" \in DOMAIN m

\* the mutation a box event asks for, on a page-indexed mapping
MutationOf(m, bs) ==
  LET p == m.pageNumber IN
  CASE m.type = "add_box" -> [bs EXCEPT ![p] = bs[p] \o <<m.box>>]
    [] m.type = "update_box" ->
         [bs EXCEPT ![p] = [k \in 1..Len(bs[p]) |->
            IF bs[p][k].id = m.boxId
               /\ \A j \in 1..(k - 1) : bs[p][j].id # m.boxId
            THEN Spread(bs[p][k], m.patch) ELSE bs[p][k]]]
    [] m.type = "delete_box" ->
         [bs EXCEPT ![p] = SelectSeq(bs[p], LAMBDA b : b.id # m.boxId)]

\* the event the other participants are sent for a box event
RelayedAs(m) ==
  CASE m.type = "add_box" ->
         [type |-> "box_added", pageNumber |-> m.pageNumber, box |-> m.box]
    [] m.type = "update_box" ->
         [type |-> "box_updated", pageNumber |-> m.pageNumber, boxId |-> m.boxId,
          patch |-> m.patch]
    [] m.type = "delete_box" ->
         [type |-> "box_deleted", pageNumber |-> m.pageNumber, boxId |-> m.boxId]

\* every participant of the room but c is sent ev, and nobody else anything
SentToOthers(c, d, ev) ==
  \A q \in Clients :
    toClient'[q] = IF q \in rooms[d] \ {c} THEN toClient[q] \o <<ev>> ELSE toClient[q]

\* C1: a join is answered with an init_state carrying the boxes RoomState holds
\* when the server handles the join, so a box added before that is in it; an
\* add_box is stored in RoomState and sent as box_added to every participant
\* enrolled in the room when the server handles it, the sender excepted; the
\* participant's handlers put both into its boxes state.
C1_JoinReplaysAddIsLive ==
  [][ /\ \A c \in Clients :
           Handled(c) =>
             LET m == Head(toServer[c]) IN
             /\ (m.type = "join" /\ "docId" \in DOMAIN m) =>
                  /\ c \in rooms'[m.docId]
                  /\ toClient'[c] = toClient[c] \o
                       <<[type |-> "init_state", boxes |-> CachedBoxes(m.docId)]>>
             /\ (m.type = "add_box" /\ WellFormedBoxEvent(m)) =>
                  /\ LastOf(docs'[m.docId].boxes[m.pageNumber]) = m.box
                  /\ \A q \in rooms[m.docId] \ {c} :
                       toClient'[q] = toClient[q] \o
                         <<[type |-> "box_added", pageNumber |-> m.pageNumber,
                            box |-> m.box]>>
      /\ \A c \in Clients :
           Received(c) =>
             LET e == Head(toClient[c]) IN
             /\ e.type = "init_state" => boxes'[c] = e.boxes
             /\ e.type = "box_added" =>
                  boxes'[c][e.pageNumber] = boxes[c][e.pageNumber] \o <<e.box>>
    ]_vars

\* C1 witness: a participant that joined after one box was cached and before
\* another was added has the first in its init_state and the second as a live
\* box_added behind it
C1_Witness ==
  \E c \in Clients : \E i, j \in 1..Len(toClient[c]) :
    /\ i < j
    /\ toClient[c][i].type = "init_state"
    /\ \E p \in Pages : toClient[c][i].boxes[p] # <<>>
    /\ toClient[c][j].type = "box_added"

\* C2 as claimed: every well-formed box event of a participant of the room is
\* applied to RoomState and sent to every other participant of the room, and
\* not to the sender
C2_EveryBoxEventRelayed ==
  [][\A c \in Clients :
       (Handled(c) /\ WellFormedBoxEvent(Head(toServer[c]))
          /\ c \in rooms[Head(toServer[c]).docId]) =>
         LET m == Head(toServer[c]) IN
         /\ docs'[m.docId].boxes = MutationOf(m, docs[m.docId].boxes)
         /\ SentToOthers(c, m.docId, RelayedAs(m))
    ]_vars

\* the box an update_box names is on the addressed page of RoomState
Addressed(m) ==
  m.type = "update_box" =>
    \E k \in 1..Len(CachedBoxes(m.docId)[m.pageNumber]) :
      CachedBoxes(m.docId)[m.pageNumber][k].id = m.boxId

\* C2 amended: add_box, delete_box, and update_box for a box that is on the
\* addressed page of RoomState are applied to RoomState and sent to every
\* other participant of the room and not to the sender; an update_box for a
\* box that is not there changes nothing and is sent to nobody
C2_BoxEventRelayedWhenAddressed ==
  [][\A c \in Clients :
       (Handled(c) /\ WellFormedBoxEvent(Head(toServer[c]))
          /\ c \in rooms[Head(toServer[c]).docId]) =>
         LET m == Head(toServer[c]) IN
         IF Addressed(m)
         THEN /\ docs'[m.docId].boxes = MutationOf(m, docs[m.docId].boxes)
              /\ SentToOthers(c, m.docId, RelayedAs(m))
         ELSE docs' = docs /\ toClient' = toClient
    ]_vars

\* C2 witness: an update of a box of RoomState has been relayed to the other
\* participant, whose handler has not run yet, and the sender was sent nothing
C2_Witness ==
  \E c, q \in Clients :
    /\ c # q
    /\ {c, q} \subseteq rooms[docIdOf(c)]
    /\ toClient[q] # <<>>
    /\ LastOf(toClient[q]).type = "box_updated"
    /\ toClient[c] = <<>>
    /\ \E p \in Pages : \E k \in 1..Len(CachedBoxes(docIdOf(c))[p]) :
         /\ CachedBoxes(docIdOf(c))[p][k].id = LastOf(toClient[q]).boxId
         /\ (DOMAIN LastOf(toClient[q]).patch) \subseteq DOMAIN CachedBoxes(docIdOf(c))[p][k]
         /\ \A f \in DOMAIN LastOf(toClient[q]).patch :
              CachedBoxes(docIdOf(c))[p][k][f] = LastOf(toClient[q]).patch[f]

ImageEvents == {"add_image", "update_image", "delete_image"}

\* C3 as claimed: an image event of a participant of the room is sent on to
\* the other participants of the room
C3_ImageEventsRelayed ==
  [][\A c \in Clients :
       (Handled(c) /\ Head(toServer[c]).type \in ImageEvents
          /\ c \in rooms[Head(toServer[c]).docId]) =>
         \A q \in rooms[Head(toServer[c]).docId] \ {c} :
           Len(toClient'[q]) = Len(toClient[q]) + 1
    ]_vars

\* the fields the handler of an event type requires (box itself aside)
RequiredFields(type) ==
  CASE type = "join" -> {"docId"}
    [] type \in {"add_box", "add_image"} -> {"docId", "pageNumber"}
    [] type \in {"update_box", "delete_box"} -> {"docId", "pageNumber", "boxId"}
    [] type \in {"update_image", "delete_image"} -> {"docId", "pageNumber", "imageId"}
    [] type \in {"lock_box", "unlock_box"} -> {"docId", "boxId"}
    [] OTHER -> {}

Gestured(c, type) ==
  /\ Len(toServer'[c]) = Len(toServer[c]) + 1
  /\ LastOf(toServer'[c]).type = type

\* C5: an update that names an id absent from the addressed page leaves the
\* store unchanged: the participant's boxes for updateBox and box_updated, its
\* images for updateImage, and RoomState for the server's update_box
C5_UpdateOfAbsentIdIsNoOp ==
  [][ /\ \A c \in Editors :
           /\ (Gestured(c, "update_box")
                 /\ FindIndex(boxes[c][LastOf(toServer'[c]).pageNumber],
                              LastOf(toServer'[c]).boxId) < 0)
                => boxes' = boxes
           /\ (Gestured(c, "update_image")
                 /\ FindIndex(images[c][LastOf(toServer'[c]).pageNumber],
                              LastOf(toServer'[c]).imageId) < 0)
                => images' = images
      /\ \A c \in Clients :
           (Received(c) /\ Head(toClient[c]).type = "box_updated"
              /\ FindIndex(boxes[c][Head(toClient[c]).pageNumber],
                           Head(toClient[c]).boxId) < 0)
             => boxes' = boxes
      /\ \A c \in Clients :
           (Handled(c) /\ Head(toServer[c]).type = "update_box"
              /\ WellFormedBoxEvent(Head(toServer[c]))
              /\ FindIndex(CachedBoxes(Head(toServer[c]).docId)[Head(toServer[c]).pageNumber],
                           Head(toServer[c]).boxId) < 0)
             => docs' = docs
    ]_vars

\* C5 witness: an update_box is pending whose id is neither on that page of
\* the sender's boxes nor on that page of RoomState
C5_Witness ==
  \E c \in Clients :
    /\ toServer[c] # <<>>
    /\ Head(toServer[c]).type = "update_box"
    /\ WellFormedBoxEvent(Head(toServer[c]))
    /\ FindIndex(boxes[c][Head(toServer[c]).pageNumber], Head(toServer[c]).boxId) < 0
    /\ FindIndex(CachedBoxes(Head(toServer[c]).docId)[Head(toServer[c]).pageNumber],
                 Head(toServer[c]).boxId) < 0
    /\ \E p \in Pages : boxes[c][p] # <<>>

sessVars == <<history, historyIndex, pdfBuffer, editedUrl>>

\* a step in which some recomposition pushes onto the history
PushStep ==
  \E j \in BagToSet(jobs) : UploadOk(j) \/ UploadFailed(j) \/ SaveDocFailed(j)

\* C6: while no undo has moved the cursor since the history was started, after
\* N pushes (the entry of the file load being the first) the cursor is N - 1
\* and redo is unavailable
C6_CursorCountsPushes ==
  (pushes >= 1 /\ ~undone) =>
    (historyIndex = pushes - 1 /\ ~canRedo(history, historyIndex))

\* C7: from any state where undo is available, undo then redo then undo leaves
\* the bytes and the cursor that the first undo left, these bytes being the
\* bytes of the entry the cursor is on, and none of the three changes the
\* history
C7_UndoRedoUndo ==
  canUndo(historyIndex) =>
    LET s1 == Undone(Session)
        s2 == Redone(s1)
        s3 == Undone(s2)
    IN /\ s1.pdfBuffer = EntryAt(history, historyIndex - 1).bytes
       /\ s2.pdfBuffer = EntryAt(history, historyIndex).bytes
       /\ s3.pdfBuffer = s1.pdfBuffer
       /\ s3.historyIndex = s1.historyIndex
       /\ s1.history = history /\ s2.history = history /\ s3.history = history

\* C7 witness: the cursor is on the middle one of three entries after an undo,
\* its bytes are current, and another undo would change the current bytes
C7_Witness ==
  /\ Len(history) = 3
  /\ historyIndex = 1
  /\ undone
  /\ pdfBuffer = EntryAt(history, 1).bytes
  /\ Undone(Session).pdfBuffer # pdfBuffer
  /\ Redone(Undone(Session)).pdfBuffer = pdfBuffer

\* C8: the cursor is -1 when the history is empty and otherwise an index of
\* the history
C8_CursorValid ==
  /\ history = <<>> => historyIndex = -1
  /\ history # <<>> => (0 <= historyIndex /\ historyIndex < Len(history))

\* C8 witness: after the file was changed, a recomposition pushed onto the new
\* history and an undo moved the cursor back, while a recomposition is in flight
C8_Witness ==
  /\ opened = 2
  /\ Len(history) = 2
  /\ historyIndex = 0
  /\ undone
  /\ jobs # EmptyBag

\* C9: handleUndo with the cursor on the first entry, and handleRedo with the
\* cursor on the last entry, change none of the history, the cursor, the
\* current bytes and the current URL
C9_UndoRedoAtEndsNoOp ==
  [][ /\ (handleUndo /\ historyIndex = 0) => UNCHANGED sessVars
      /\ (handleRedo /\ history # <<>> /\ historyIndex = Len(history) - 1)
           => UNCHANGED sessVars
    ]_vars

\* C9 witness: the cursor is on the first of two entries, where undo returns
\* the session as it is and redo does not
C9_Witness ==
  /\ Len(history) = 2
  /\ historyIndex = 0
  /\ Undone(Session) = Session
  /\ Redone(Session) # Session
  /\ Redone(Redone(Session)) = Redone(Session)

\* C10: every push keeps the entries up to the cursor of the state it is made
\* in, appends one entry after them, and leaves the cursor on that entry
C10_PushTruncatesAtCursor ==
  [][ PushStep =>
        /\ Len(history') = historyIndex + 2
        /\ SubSeq(history', 1, historyIndex + 1) = SubSeq(history, 1, historyIndex + 1)
        /\ historyIndex' = Len(history') - 1
    ]_vars

\* C15: when the upload of a recomposition rejects, the new bytes become the
\* current bytes, an object URL of them becomes the current URL, and an entry
\* holding both is pushed as the last entry with the cursor on it, so that
\* undo is available from it
C15_UploadFailureContinuesLocally ==
  [][ \A j \in BagToSet(jobs) :
        UploadFailed(j) =>
          /\ pdfBuffer' = j.bytes
          /\ editedUrl' = BlobRef(j.bytes)
          /\ history' # <<>>
          /\ LastOf(history') = [bytes |-> j.bytes, url |-> BlobRef(j.bytes)]
          /\ historyIndex' = Len(history') - 1
          /\ (Len(history') > 1 => canUndo(historyIndex'))
          /\ ~BagIn(j, jobs') \/ CopiesIn(j, jobs') < CopiesIn(j, jobs)
    ]_vars

\* C15 witness: in a session without a docId and without an undo, the last
\* entry was pushed with an object URL, which only a rejected upload does,
\* and its bytes and URL are current
C15_Witness ==
  /\ ~sessDoc
  /\ ~undone
  /\ Len(history) = 2
  /\ historyIndex = 1
  /\ history[2].url.kind = "blob"
  /\ pdfBuffer = history[2].bytes
  /\ editedUrl = history[2].url
  /\ history[1].url.kind = "file"

\* C24: with the cursor on the last entry, a recomposition that has serialized
\* its document leaves the history one entry longer, the new entry holding its
\* bytes, whether its upload resolves or rejects; the catch that follows a
\* rejected saveDoc leaves the length as it is
C24_OneEntryPerRecomposition ==
  [][ \A j \in BagToSet(jobs) :
        historyIndex = Len(history) - 1 =>
          /\ (UploadOk(j) \/ UploadFailed(j)) =>
               /\ Len(history') = Len(history) + 1
               /\ LastOf(history').bytes = j.bytes
          /\ SaveDocFailed(j) => Len(history') = Len(history)
    ]_vars

\* C34: undo and redo leave the annotation store (its boxes and images),
\* the history's entries and the events sent as they are, and a
\* recomposition started afterwards draws the store as it then is.
C34_UndoKeepsStore ==
  [][ /\ (handleUndo \/ handleRedo) =>
           UNCHANGED <<store, boxes, images, toServer, emits, history, fileUrl>>
      /\ started' # started =>
           \E j \in BagToSet(jobs') :
             /\ CopiesIn(j, jobs') = CopiesIn(j, jobs) + 1
             /\ j.bytes = Recomposed(fileUrl, store) ]_vars

\* after an undo, with annotations in the store, a recomposition started at
\* the moved cursor is in flight with those annotations drawn
C34_Witness ==
  /\ undone
  /\ store = "s1"
  /\ historyIndex < Len(history) - 1
  /\ \E j \in BagToSet(jobs) : j.cap = historyIndex /\ j.bytes = Recomposed(fileUrl, "s1")

\* C31: under fair scheduling every recomposition in flight ends; it leaves
\* the set of those in flight only by ending; one that ends in failure leaves
\* the history, the cursor, the current bytes and URL as they were, and one
\* whose upload settles makes its bytes current and the history's last entry.
C31_RecompositionEnds ==
  /\ (jobs # EmptyBag) ~> (jobs = EmptyBag)
  /\ [][ \A j \in BagToSet(jobs) :
           /\ FailRecompose(j) =>
                UNCHANGED <<history, historyIndex, pdfBuffer, editedUrl>>
           /\ (UploadOk(j) \/ UploadFailed(j)) =>
                /\ pdfBuffer' = j.bytes
                /\ LastOf(history').bytes = j.bytes
                /\ historyIndex' = Len(history') - 1
           /\ CopiesIn(j, jobs') < CopiesIn(j, jobs) =>
                \/ FailRecompose(j)
                \/ UploadOk(j)
                \/ UploadFailed(j)
                \/ SaveDocOk(j)
                \/ SaveDocFailed(j) ]_vars

\* two recompositions have run to their end, each pushing its entry
C31_Witness ==
  /\ started = MaxRecompose
  /\ jobs = EmptyBag
  /\ Len(history) = 3
  /\ historyIndex = 2

(***************************************************************************)
(* Properties of the recomposition (SpecDraw).                             *)
(***************************************************************************)
\* the draws a recomposition step adds to page p
Added(p) == SubSeq(served'[p], Len(Loaded(hasFile, served)[p]) + 1, Len(served'[p]))

\* a recomposition step that reaches the push
Pushes == Recompose /\ outcome' = "pushed"

\* C11: a recomposition draws the text of every box it does not skip at
\* (left/scale, pageHeight - top/scale - height/scale); for the box at left 50,
\* top 100, height 20 at scale 1.0 on an 842-point page this is (50, 722)
C11_TextAnchor ==
  [][ Pushes =>
        \A p \in Pages : OnDocument(p, pageCount) =>
          \A k \in 1..Len(toEmbed.boxes[p]) :
            LET box == toEmbed.boxes[p][k] IN
            ~SkippedBox(box) =>
              \E i \in 1..Len(Added(p)) :
                /\ Added(p)[i].kind = "text"
                /\ Added(p)[i].id = box.id
                /\ Added(p)[i].x = PdfX(box.left, scale)
                /\ Added(p)[i].y = PdfY(box.top, box.height, PageHeightPt, scale)
    ]_vars

\* C12: mapping the screen position of an annotation to PDF space and back to
\* screen space, at the same page height and scale, gives the position again
C12_RoundTrip ==
  \A p \in Pages : \A k \in 1..Len(toEmbed.boxes[p]) :
    LET pos == toEmbed.boxes[p][k]
        back == ToScreenSpace(ToPdfSpace(pos, PageHeightPt, scale), PageHeightPt, scale)
    IN back.left = RInt(pos.left) /\ back.top = RInt(pos.top)

\* how often an annotation with this id is drawn on a page
TimesDrawn(page, id) == Cardinality({i \in 1..Len(page) : page[i].id = id})

Embeddable(is) == SelectSeq(is, Embeds)

\* C14: a recomposition passed an image that does not embed still reaches
\* the push, with every box it does not skip and every other image drawn
C14_EmbedFailureIsolated ==
  [][ Recompose =>
        /\ outcome' = "pushed"
        /\ served' = Embedded(Loaded(hasFile, served),
                              [boxes |-> toEmbed.boxes,
                               images |-> [p \in Pages |-> Embeddable(toEmbed.images[p])]],
                              pageCount, PageHeightPt, scale)
    ]_vars

\* C23: the document a recomposition produces is the original with the boxes
\* and images passed drawn at the scale, whatever document was current before
\* it ran: no draw of an earlier recomposition is in it
C23_RestartsFromOriginal ==
  [][ Pushes => served' = Embedded(EmptyPages, toEmbed, pageCount, PageHeightPt, scale)
    ]_vars

\* C30: the scale is within [0.5, 2.0], and so positive, whatever zoom
\* steps were taken
C30_ScaleClamped == scale >= MinScale /\ scale <= MaxScale /\ scale > 0

\* C30 witness: three zoom clicks from 0.5 ended on 0.5, so a zoom-out was
\* taken at the floor
C30_Witness == scale = MinScale /\ drawSteps = 3 /\ outcome = "none"

\* C37: with the annotations unchanged, a recomposition from the opened file
\* draws every box and image where the recomposition before it drew them,
\* whatever zoom clicks came in between.
C37_ZoomIndependent ==
  [][ (Pushes /\ outcome = "pushed" /\ hasFile) => served' = served ]_vars

(***************************************************************************)
(* Properties of the upload endpoints (SpecUpload).                        *)
(***************************************************************************)
\* the declared type is PDF or one of the image formats an endpoint supports
DeclaredSupported(file) ==
  "mimetype" \in DOMAIN file /\ Lower(file.mimetype) \in AllowedTypes

\* C16: an upload whose declared type is neither PDF nor a supported image
\* format leaves the storage of the backend as it was and is answered
\* without a retrieval URL
C16_UnsupportedUploadRejected ==
  [][ \A b \in Backends, f \in UploadFiles :
        (Upload(b, f) /\ ~DeclaredSupported(f)) =>
          /\ storage' = storage
          /\ reply'.status # "200"
          /\ "url" \notin DOMAIN reply'
    ]_vars

\* C16 witness: the second request was refused by the filter of a backend
\* whose storage holds the file of the first
C16_Witness ==
  /\ uploadsDone = 2
  /\ reply.status = "error"
  /\ \E b \in Backends : storage[b] # {}

(***************************************************************************)
(* Properties of the document endpoints (SpecDoc).                         *)
(***************************************************************************)
DocFields == {"boxes", "images", "pdfUrl"}

\* C17: GET /doc/:id on an unknown id answers the empty defaults and creates
\* no state; after POST /doc/:id a GET answers, for each of boxes, images and
\* pdfUrl, the posted value, or the previous one where the POST left it out
C17_DocPersistence ==
  [][ \A r \in httpReqs :
        /\ (HttpGet(r) /\ r.docId \notin DOMAIN docs) =>
             /\ docs' = docs
             /\ \E a \in httpResps' : a.n = r.n /\ a.state = [boxes |-> EmptyPages]
        /\ HttpPost(r) =>
             LET before == GetBody(docs, r.docId)
                 after == GetBody(docs', r.docId)
             IN \A f \in DocFields :
                  IF f \in DOMAIN r.body
                  THEN f \in DOMAIN after /\ after[f] = r.body[f]
                  ELSE /\ f \in DOMAIN after <=> f \in DOMAIN before
                       /\ f \in DOMAIN after => after[f] = before[f]
    ]_vars

(***************************************************************************)
(* Properties of the relay with the document endpoints (SpecRoom).         *)
(***************************************************************************)
\* locked: true on a box
IsLocked(b) == "locked" \in DOMAIN b /\ b.locked

\* C18: whatever socket events and saves have happened, no box held in
\* RoomState carries a set lock flag, so the init_state a joining participant
\* is sent has no locked box
C18_LockNeverPersisted ==
  \A d \in DOMAIN docs :
    \A p \in Pages :
      \A k \in 1..Len(docs[d].boxes[p]) : ~IsLocked(docs[d].boxes[p][k])

\* { ...b } without its lock flag
Unlocked(b) == [f \in (DOMAIN b) \ {"locked"} |-> b[f]]

\* a page-indexed mapping of boxes, lock flags left out
WithoutLocks(pagesOf) ==
  [p \in Pages |-> [k \in 1..Len(pagesOf[p]) |-> Unlocked(pagesOf[p][k])]]

\* nothing is in flight: every socket event has been handled by the server
\* and by the open sockets it was sent to, every HTTP request answered and
\* every answer taken
Quiescent ==
  /\ \A c \in Clients : toServer[c] = <<>>
  /\ \A c \in Clients : sock[c] = "open" => toClient[c] = <<>>
  /\ httpReqs = {} /\ httpResps = {}

\* a participant enrolled in its document's room over an open socket
Joined(c) == sock[c] = "open" /\ c \in rooms[docIdOf(c)]

\* C20: with nothing in flight, every joined participant's boxes are the
\* boxes of RoomState for its document, lock flags apart
C20_Convergence ==
  Quiescent =>
    \A c \in Editors :
      Joined(c) => WithoutLocks(boxes[c]) = WithoutLocks(CachedBoxes(docIdOf(c)))

\* a step in which a gesture of c changes its annotation store: the store
\* changes and the step takes neither a socket event nor an HTTP answer
LocalMutation(c) ==
  /\ boxes'[c] # boxes[c] \/ images'[c] # images[c]
  /\ toClient' = toClient
  /\ httpResps' = httpResps

\* C22: every change a gesture makes to a participant's annotation store is
\* emitted on its socket in the same step
C22_GesturesEmitted ==
  [][ \A c \in Editors :
        LocalMutation(c) => Len(toServer'[c]) = Len(toServer[c]) + 1
    ]_vars

\* C36: a box RoomState holds stays in it until the server handles a
\* delete_box for its id; no other step, a POST /doc among them, removes it.
C36_BoxStaysUntilDeleted ==
  [][ \A d \in DOMAIN docs : \A id \in IdsIn(docs[d].boxes) :
        \/ id \in IdsIn(docs'[d].boxes)
        \/ \E c \in Clients :
             /\ Handled(c)
             /\ Head(toServer[c]).type = "delete_box"
             /\ Head(toServer[c]).boxId = id ]_vars

(***************************************************************************)
(* Properties of two editors at work on shared boxes (SpecMerge).          *)
(***************************************************************************)
\* C25: when the server handles an update_box for a box RoomState holds, the
\* stored box takes every field of the patch from the patch and keeps every
\* other field, so of two patches the one handled last decides the fields both
\* name and the fields only the first names stay; nothing else in RoomState
\* changes
C25_LastPatchWinsPerField ==
  [][ \A c \in Clients :
        (Handled(c) /\ Head(toServer[c]).type = "update_box"
           /\ WellFormedBoxEvent(Head(toServer[c]))
           /\ FindIndex(CachedBoxes(Head(toServer[c]).docId)[Head(toServer[c]).pageNumber],
                        Head(toServer[c]).boxId) >= 0) =>
          LET m == Head(toServer[c])
              arr == docs[m.docId].boxes[m.pageNumber]
              arr2 == docs'[m.docId].boxes[m.pageNumber]
              i == FindIndex(arr, m.boxId) + 1
          IN /\ Len(arr2) = Len(arr)
             /\ DOMAIN arr2[i] = (DOMAIN arr[i]) \cup (DOMAIN m.patch)
             /\ \A f \in DOMAIN arr2[i] :
                  arr2[i][f] = IF f \in DOMAIN m.patch THEN m.patch[f] ELSE arr[i][f]
             /\ \A k \in 1..Len(arr) : k # i => arr2[k] = arr[k]
             /\ \A q \in Pages : q # m.pageNumber =>
                  docs'[m.docId].boxes[q] = docs[m.docId].boxes[q]
    ]_vars

\* C25 witness: both patches were handled for box u1, the one with the text
\* last: left is the second's, top the first's, text the second's, width the
\* box's own
C25_Witness ==
  /\ docs["d1"].boxes[1] # <<>>
  /\ LET b == docs["d1"].boxes[1][1] IN
       /\ b.id = "u1" /\ b.left = 70 /\ b.top = 110 /\ b.text = "Hello" /\ b.width = 180

\* the new item stands behind all items the page had, which are as they were
AddKeepsOrder(arr, arr2, item) == arr2 = Append(arr, item)

\* every item is at the index it had, and the items not addressed are as
\* they were
UpdateKeepsOrder(arr, arr2, id) ==
  /\ Len(arr2) = Len(arr)
  /\ \A k \in 1..Len(arr) :
       /\ arr2[k].id = arr[k].id
       /\ arr[k].id # id => arr2[k] = arr[k]

\* the addressed item is gone and the others follow each other as before
DeleteKeepsOrder(arr, arr2, id) ==
  LET i == FindIndex(arr, id) IN
  IF i < 0 THEN arr2 = arr
  ELSE arr2 = SubSeq(arr, 1, i) \o SubSeq(arr, i + 2, Len(arr))

\* C27: in RoomState when the server handles add_box, update_box and
\* delete_box, in a participant's boxes when it handles box_added, box_updated
\* and box_deleted, and in its boxes when it places, updates or deletes a box:
\* an add appends to the page, an update keeps every item at its index and a
\* delete removes the addressed item only
C27_InsertionOrderKept ==
  [][ /\ \A c \in Clients :
           (Handled(c) /\ WellFormedBoxEvent(Head(toServer[c]))) =>
             LET m == Head(toServer[c])
                 arr == CachedBoxes(m.docId)[m.pageNumber]
                 arr2 == docs'[m.docId].boxes[m.pageNumber]
             IN CASE m.type = "add_box" -> AddKeepsOrder(arr, arr2, m.box)
                  [] m.type = "update_box" -> UpdateKeepsOrder(arr, arr2, m.boxId)
                  [] m.type = "delete_box" -> DeleteKeepsOrder(arr, arr2, m.boxId)
      /\ \A c \in Clients :
           Received(c) =>
             LET m == Head(toClient[c]) IN
             CASE m.type = "box_added" ->
                    AddKeepsOrder(boxes[c][m.pageNumber], boxes'[c][m.pageNumber], m.box)
               [] m.type = "box_updated" ->
                    UpdateKeepsOrder(boxes[c][m.pageNumber], boxes'[c][m.pageNumber], m.boxId)
               [] m.type = "box_deleted" ->
                    DeleteKeepsOrder(boxes[c][m.pageNumber], boxes'[c][m.pageNumber], m.boxId)
               [] OTHER -> TRUE
      /\ \A c \in Editors :
           LET m == LastOf(toServer'[c]) IN
           /\ Gestured(c, "add_box") =>
                AddKeepsOrder(boxes[c][m.pageNumber], boxes'[c][m.pageNumber], m.box)
           /\ Gestured(c, "update_box") =>
                UpdateKeepsOrder(boxes[c][m.pageNumber], boxes'[c][m.pageNumber], m.boxId)
           /\ Gestured(c, "delete_box") =>
                DeleteKeepsOrder(boxes[c][m.pageNumber], boxes'[c][m.pageNumber], m.boxId)
    ]_vars

\* C27 witness: of the boxes u1, u2 the first was deleted, the second updated
\* and a third added: RoomState and both participants hold the updated u2
\* before u3
C27_Witness ==
  /\ Len(docs["d1"].boxes[1]) = 2
  /\ docs["d1"].boxes[1][1].id = "u2" /\ docs["d1"].boxes[1][1].left = 60
  /\ docs["d1"].boxes[1][2].id = "u3"
  /\ \A c \in Editors : boxes[c][1] = docs["d1"].boxes[1]

\* no identifier occurs twice in a page-indexed mapping, on one page or two
UniqueIds(pagesOf) ==
  /\ \A p \in Pages : \A j, k \in 1..Len(pagesOf[p]) :
       pagesOf[p][j].id = pagesOf[p][k].id => j = k
  /\ \A p, q \in Pages : \A j \in 1..Len(pagesOf[p]) : \A k \in 1..Len(pagesOf[q]) :
       pagesOf[p][j].id = pagesOf[q][k].id => p = q

\* C26: RoomState of every document and the boxes of every participant hold
\* no identifier twice
C26_BoxIdsUnique ==
  /\ \A d \in DOMAIN docs : UniqueIds(docs[d].boxes)
  /\ \A c \in Clients : UniqueIds(boxes[c])

(***************************************************************************)
(* Properties of the text extraction (SpecExtract).                        *)
(***************************************************************************)
\* the positions of the glyph runs in the operator list
RunPositions(ops) ==
  SelectSeq([i \in 1..Len(ops) |-> i], LAMBDA i : IsShowText(ops[i]))

\* C28: every extracted text block carries the fill color in effect at its
\* own glyph run, that is the color the operators before the run leave.
C28_ColorOfOwnRun ==
  \A k \in DOMAIN pdfTextItems :
    pdfTextItems[k].color = ColorAt(stream, RunPositions(stream)[k])


(***************************************************************************)
(* Properties of the inline replacement (SpecInline).                      *)
(***************************************************************************)
\* the job a call of handleSaveTextEditInline has just put in flight
StartedBy(j) == CopiesIn(j, jobs') = CopiesIn(j, jobs) + 1

C21_DrawsCurrentStore ==
  [][ \A t \in timers :
        (TimerFired(t) /\ outcome' = "pushed") =>
          served' = Embedded(Loaded(hasFile, served),
                             [boxes |-> boxes[Dragger], images |-> images[Dragger]],
                             pageCount, PageHeightPt, scale) ]_vars

(***************************************************************************)
(* Properties of the relay under a connection that never joined            *)
(* (SpecOutsider).                                                         *)
(***************************************************************************)
\* C35: a step in which the server handles an event of a connection that is
\* not enrolled in the room of d1 leaves RoomState of d1 as it was and
\* delivers nothing to the participants of that room.
C35_OnlyMembersAct ==
  [][ \A c \in Clients :
        (Handled(c) /\ c \notin rooms["d1"]) =>
          /\ docs'["d1"] = docs["d1"]
          /\ \A e \in rooms["d1"] : toClient'[e] = toClient[e] ]_vars

(***************************************************************************)
(* Properties of a session whose file changes (SpecSwitch).                *)
(***************************************************************************)
\* no fetch and no recomposition is in flight
Settled ==
  /\ \A f \in Files : fetching[f] = 0
  /\ urlFetches = {}
  /\ jobs = EmptyBag

\* C38: once everything in flight has settled, the session is the opened
\* file's: the history starts with that file's original bytes, holds bytes of
\* that file only, the cursor is on one of its entries and the current bytes
\* are bytes of that file.
C38_SessionOfOpenedFile ==
  (Settled /\ fileUrl # NoFile) =>
    /\ Len(history) >= 1
    /\ history[1] = [bytes |-> OriginalBytes(fileUrl), url |-> FileRef(fileUrl)]
    /\ \A i \in 1..Len(history) : history[i].bytes.file = fileUrl
    /\ historyIndex >= 0 /\ historyIndex < Len(history)
    /\ pdfBuffer.file = fileUrl

(***************************************************************************)
(* Properties of the delete gestures (SpecDelete).                         *)
(***************************************************************************)
\* the ids of the text and image draws of a document
DrawnIds(doc) == UNION {{doc[p][k].id : k \in 1..Len(doc[p])} : p \in Pages}

\* C32: the document a delete gesture's rebuild pushes is the loaded one with
\* the remaining boxes and images drawn on: it holds no draw of the deleted
\* annotation.
C32_DeletedNotDrawn ==
  [][ \A c \in Clients :
        (LocalMutation(c) /\ outcome' = "pushed") =>
          /\ served' = Embedded(Loaded(hasFile, served),
                                [boxes |-> boxes'[c], images |-> images'[c]],
                                pageCount, PageHeightPt, scale)
          /\ DrawnIds(served') \subseteq IdsIn(boxes'[c]) \cup IdsIn(images'[c]) ]_vars

(***************************************************************************)
(* Properties of gestures under remote changes (SpecRemote).               *)
(***************************************************************************)
\* the box with this id on page p of a store, or no box
BoxOn(pagesOf, p, id) ==
  IF FindIndex(pagesOf[p], id) >= 0 THEN {pagesOf[p][FindIndex(pagesOf[p], id) + 1]} ELSE {}

\* C33: a box absent from a participant's store comes into it only with a
\* box_added or init_state the participant handles, and a step of a drag or
\* of typing leaves every other box of the page as it was.
C33_RemoteChangesKept ==
  [][ \A id \in Ids :
        /\ (id \notin IdsIn(boxes[Dragger]) /\ id \in IdsIn(boxes'[Dragger])) =>
             /\ Received(Dragger)
             /\ Head(toClient[Dragger]).type \in {"box_added", "init_state"}
        /\ (held.kind = "box" /\ held' # NoGesture /\ held.id # id /\ ~Received(Dragger)) =>
             BoxOn(boxes'[Dragger], held.page, id) = BoxOn(boxes[Dragger], held.page, id)
    ]_vars

(***************************************************************************)
(* Properties of the lock shown to the other editor (LiveLock).            *)
(***************************************************************************)
\* the watcher shows the box locked
LockedAt(c, id) == \E b \in BoxOn(boxes[c], 1, id) : IsLocked(b)

\* C39: a box the watcher shows locked is eventually shown unlocked again,
\* also when the editor that locked it closes without leaving the box.
C39_LockReleased ==
  \A id \in IdsIn(SharedBoxes) : LockedAt(Peer, id) ~> ~LockedAt(Peer, id)

====
